---- MODULE Spec2Model ----
(***************************************************************************)
(* EMS dashboard: the data-access, filter and metrics pipeline             *)
(* (src/src/data/data_loader.py, src/src/dashboard/sidebar.py,             *)
(* src/src/dashboard/metrics_calculator.py,                                *)
(* src/src/dashboard/dynamic_dashboard.py, src/main.py).                   *)
(*                                                                         *)
(* A DataFrame is a record [columns, rows]; a row is [idx, cells] where    *)
(* idx is the index label and cells maps each column name to a cell.  A    *)
(* cell is a record [k, v]: k is the kind of the value ("ts" a Timestamp,  *)
(* "str" a date string "YYYY-MM-DD" of day v, "bad" a string that is no     *)
(* date, "num", "bool", "null" for None/NaN/NaT).  A Timestamp is a        *)
(* number of ticks; TicksPerDay ticks make one calendar day and tick 0 of  *)
(* a day is midnight.  DataFrames live in a heap of objects so that        *)
(* aliasing and in-place column assignment are visible.                    *)
(***************************************************************************)
EXTENDS Integers, Sequences, FiniteSets, TLC

VARIABLES heap, orig, crit, ret, ret2, pc, fs, cache, out, session

vars == <<heap, orig, crit, ret, ret2, pc, fs, cache, out, session>>

\* ------------------------------------------------------------- bounds
MaxRows == 2
MaxTick == 4
TicksPerDay == 2

\* ------------------------------------------------------------- cells
Null == [k |-> "null", v |-> 0]
Ts(t) == [k |-> "ts", v |-> t]
Str(d) == [k |-> "str", v |-> d]
Bad == [k |-> "bad", v |-> 0]
Num(n) == [k |-> "num", v |-> n]
Bool(b) == [k |-> "bool", v |-> IF b THEN 1 ELSE 0]

Ticks == 0..MaxTick
DayOf(t) == t \div TicksPerDay
Days == {DayOf(t) : t \in Ticks}

\* pd.Timestamp(d) / pd.to_datetime(d) of a datetime.date d: midnight of d
Timestamp(d) == d * TicksPerDay

\* column names
DateCol == "Date"
TotalCol == "Total"
BuildingCol(label) == "Building Type_" \o label

\* ------------------------------------------------------------- frames
Range(s) == {s[i] : i \in DOMAIN s}

Column(df, c) == [i \in DOMAIN df.rows |-> df.rows[i].cells[c]]

\* df[mask]: boolean indexing keeps the rows whose mask is true, in order,
\* with their index labels, in a new object
RECURSIVE SelectSeq2(_, _, _)
SelectSeq2(rows, mask, i) ==
    IF i > Len(rows) THEN <<>>
    ELSE (IF mask[i] THEN <<rows[i]>> ELSE <<>>) \o SelectSeq2(rows, mask, i + 1)

RECURSIVE Reverse(_)
Reverse(s) == IF s = <<>> THEN <<>> ELSE Reverse(Tail(s)) \o <<Head(s)>>

\* a slip: the selected rows come out last first
BooleanIndex_Reversed(df, mask) ==
    [columns |-> df.columns, rows |-> Reverse(SelectSeq2(df.rows, mask, 1)),
     object |-> df.object]
\* a slip: the scan starts one row late
BooleanIndex_SkipFirst(df, mask) ==
    [columns |-> df.columns, rows |-> SelectSeq2(df.rows, mask, 2), object |-> df.object]
BooleanIndex(df, mask) ==
    [columns |-> df.columns, rows |-> SelectSeq2(df.rows, mask, 1), object |-> df.object]

\* df[c] = values: in-place assignment of a column of the object; is_object
\* says whether the values assigned have dtype object
SetColumn(df, c, values, is_object) ==
    [columns |-> df.columns \cup {c},
     rows |-> [i \in DOMAIN df.rows |->
                 [idx |-> df.rows[i].idx,
                  cells |-> [x \in df.columns \cup {c} |->
                               IF x = c THEN values[i] ELSE df.rows[i].cells[x]]]],
     object |-> IF is_object THEN df.object \cup {c} ELSE df.object \ {c}]

\* ------------------------------------------------------------- heap
CallerRef == 1
NewRef(h) == (CHOOSE r \in DOMAIN h : \A q \in DOMAIN h : q <= r) + 1
Alloc(h, df) == [heap |-> h @@ (NewRef(h) :> df), ref |-> NewRef(h)]

\* a slip: the frame is not copied, the name is bound to the same object
DfCopy_Alias(h, r) == [heap |-> h, ref |-> r]
\* df.copy(): a new object with the same columns, rows and index
DfCopy(h, r) == Alloc(h, h[r])

\* ------------------------------------------------------------- parsing
\* pd.to_datetime of one value: Timestamps and NaT/None pass, a date string
\* becomes the Timestamp it denotes, anything else raises
CanParse(c) == c.k \in {"ts", "str", "null"}
ToDatetime(c) == IF c.k = "str" THEN Ts(Timestamp(c.v)) ELSE c
CanParseColumn(df, c) == \A i \in DOMAIN df.rows : CanParse(df.rows[i].cells[c])
ToDatetimeColumn(df, c) == [i \in DOMAIN df.rows |-> ToDatetime(df.rows[i].cells[c])]

\* ------------------------------------------------------------- filters
\* (Date >= pd.Timestamp(start_date)) & (Date <= pd.Timestamp(end_date)):
\* a comparison of Timestamps; NaT compares false
DateMask(df, start_date, end_date) ==
    [i \in DOMAIN df.rows |->
        LET c == df.rows[i].cells[DateCol] IN
        /\ c.k = "ts"
        /\ c.v >= Timestamp(start_date)
        /\ c.v <= Timestamp(end_date)]

\* a slip: any flag that is not zero passes, nulls included
FlagMask_NotZero(df, col) ==
    [i \in DOMAIN df.rows |-> df.rows[i].cells[col] # [k |-> "num", v |-> 0]]
\* df[col] == 1: true of the number 1 and of True, false of 0, False and NaN
FlagMask(df, col) ==
    [i \in DOMAIN df.rows |->
        LET c == df.rows[i].cells[col] IN c.k \in {"num", "bool"} /\ c.v = 1]

\* a slip: the column is not looked up before it is used, and a selector
\* without a column selects nothing
BuildingTypeFilter_NoLookup(df, label) ==
    IF label = "All" THEN df
    ELSE IF BuildingCol(label) \in df.columns
         THEN [columns |-> df.columns,
               rows |-> SelectSeq2(df.rows, FlagMask(df, BuildingCol(label)), 1),
               object |-> df.object]
         ELSE [columns |-> df.columns, rows |-> <<>>, object |-> df.object]
\* sidebar.py 116-122: the frame the building type filter leaves
BuildingTypeFilter(df, label) ==
    IF label # "All" /\ BuildingCol(label) \in df.columns
    THEN BooleanIndex(df, FlagMask(df, BuildingCol(label)))
    ELSE df

\* sidebar.py 109-114: the frame the date filter leaves
DateFilter(df, start_date, end_date) ==
    IF DateCol \in df.columns
    THEN BooleanIndex(df, DateMask(df, start_date, end_date))
    ELSE df

\* the radio's options (sidebar.py 86-90)
BuildingLabels == {"All", "Single Building", "Tenant"}

\* a slip: the defaults are taken from an empty frame too
DefaultIsNaT_NoRowCheck(df) ==
    /\ DateCol \in df.columns
    /\ \A i \in DOMAIN df.rows : df.rows[i].cells[DateCol].k = "null"
\* lines 63-71: the defaults of the two date inputs.  Of a frame with rows
\* whose Date column holds no date, min() and max() are NaT and so are the
\* defaults; st.sidebar.date_input is then handed NaT
DefaultIsNaT(df) ==
    /\ DateCol \in df.columns
    /\ Len(df.rows) > 0
    /\ \A i \in DOMAIN df.rows : df.rows[i].cells[DateCol].k = "null"

\* create_sidebar_filters(df) with the widgets' values start_date, end_date
\* and label: the heap it leaves and the object it returns, or the exception
\* that leaves it (nothing catches one).  pd.to_datetime raises on a string
\* that is no date; nat_ok says whether date_input accepts a NaT default or
\* raises, which the source does not decide.
create_sidebar_filters(h, df, start_date, end_date, label, nat_ok) ==
    LET c1 == DfCopy(h, df)
        hasDate == DateCol \in c1.heap[c1.ref].columns
    IN  IF hasDate /\ ~CanParseColumn(c1.heap[c1.ref], DateCol)
        THEN [exc |-> "ValueError", heap |-> c1.heap, ref |-> 0]
        ELSE
        LET h2 == IF hasDate
                  THEN [c1.heap EXCEPT ![c1.ref] =
                            SetColumn(@, DateCol, ToDatetimeColumn(@, DateCol), FALSE)]
                  ELSE c1.heap
            c2 == DfCopy(h2, c1.ref)
            a3 == Alloc(c2.heap, DateFilter(c2.heap[c2.ref], start_date, end_date))
            a4 == Alloc(a3.heap, BuildingTypeFilter(a3.heap[a3.ref], label))
        IN  IF DefaultIsNaT(h2[c1.ref]) /\ ~nat_ok
            THEN [exc |-> "WidgetError", heap |-> h2, ref |-> 0]
            ELSE [exc |-> "none", heap |-> a4.heap, ref |-> a4.ref]

\* data_loader.py filter_data(df, filters).  filters is the dict: has_range
\* says whether "date_range" is set (to start_date, end_date), bt is
\* filters["building_type"] ("absent" when the key is missing), btcol is
\* filters.get("building_type_column", "Building Type_Single Building"),
\* minc is filters["min_consumption"] (-1 when the key is missing).
\* Comparing a str cell with a Timestamp raises TypeError, which the except
\* clause swallows: the frame bound at that point is returned.
StrCompareRaises(df) ==
    \E i \in DOMAIN df.rows : df.rows[i].cells[DateCol].k \in {"str", "bad"}

\* df[col] == "<label>": no flag cell equals a string
LabelMask(df, col, label) ==
    [i \in DOMAIN df.rows |->
        LET c == df.rows[i].cells[col] IN c.k = "text" /\ c.v = label]

MinMask(df, minc) ==
    [i \in DOMAIN df.rows |->
        LET c == df.rows[i].cells[TotalCol] IN c.k = "num" /\ c.v >= minc]

filter_data(h, df, filters) ==
    IF Len(h[df].rows) = 0 THEN [exc |-> "none", heap |-> h, ref |-> df]
    ELSE
    LET c1 == DfCopy(h, df)
        f1 == c1.heap[c1.ref]
        dateOn == filters.has_range /\ DateCol \in f1.columns
        f2 == IF dateOn
              THEN BooleanIndex(f1, DateMask(f1, filters.start_date, filters.end_date))
              ELSE f1
        f3 == IF filters.bt \notin {"absent", "All"} /\ filters.btcol \in f2.columns
              THEN BooleanIndex(f2, LabelMask(f2, filters.btcol, filters.bt))
              ELSE f2
        f4 == IF filters.minc >= 0 /\ TotalCol \in f3.columns
              THEN BooleanIndex(f3, MinMask(f3, filters.minc))
              ELSE f3
    IN  IF dateOn /\ StrCompareRaises(f1)
        THEN [exc |-> "none", heap |-> c1.heap, ref |-> c1.ref]
        ELSE LET a == Alloc(c1.heap, f4) IN [exc |-> "none", heap |-> a.heap, ref |-> a.ref]

\* ------------------------------------------------------------- inputs
\* The frames a parquet file can hold, within the bounds.  A Date column is
\* a datetime column (Timestamps and NaT) or an object column (date
\* strings, None, and strings that are no date); a building type flag
\* column holds numbers (1, 0, NaN) or booleans.  Total is the row's payload.
DateKinds == {"absent", "datetime", "object"}
DateCells(kind) ==
    CASE kind = "datetime" -> {Ts(t) : t \in Ticks} \cup {Null}
      [] kind = "object" -> {Str(d) : d \in Days} \cup {Null, Bad}
      [] OTHER -> {Null}

FlagKinds == {"absent", "number", "bool"}
FlagCells(kind) ==
    CASE kind = "number" -> {Num(1), Num(0), Null}
      [] kind = "bool" -> {Bool(TRUE), Bool(FALSE)}
      [] OTHER -> {Null}
FlagLabels == {"Single Building"}

FrameColumns(dk, fk, fl) ==
    {TotalCol} \cup (IF dk = "absent" THEN {} ELSE {DateCol})
               \cup (IF fk = "absent" THEN {} ELSE {BuildingCol(fl)})

MkFrame(dk, fk, fl, choice) ==
    [columns |-> FrameColumns(dk, fk, fl),
     rows |-> [i \in DOMAIN choice |->
                 [idx |-> i,
                  cells |-> [c \in FrameColumns(dk, fk, fl) |->
                               IF c = TotalCol THEN Num(i)
                               ELSE IF c = DateCol THEN choice[i][1]
                               ELSE choice[i][2]]]],
     object |-> IF dk = "object" THEN {DateCol} ELSE {}]

\* the cells one row chooses, and the frame of a choice for every row
FilterRows(dk, fk, n) == [1..n -> DateCells(dk) \X FlagCells(fk)]

\* ------------------------------------------------------------- state
NoCall == [fn |-> "none", start_date |-> 0, end_date |-> 0, has_range |-> FALSE,
           bt |-> "absent", btcol |-> "", minc |-> -1, nat_ok |-> TRUE]
\* what date_input may do with the defaults of the frame
NatChoices(df) == IF DefaultIsNaT(df) THEN BOOLEAN ELSE {TRUE}
NoRet == [exc |-> "none", ref |-> 0]
NoFiles == <<>>
NoOut == [fn |-> "none"]
\* main.py 293-299, 260-267: st.session_state after the first run of the
\* script, with the two selectboxes at their first option
InitSession ==
    [current_page |-> "home", selected_region |-> "Kansai",
     selected_industry |-> "Transport",
     region_selector |-> "Kansai", industry_selector |-> "Transport"]

Live(h, refs) == [r \in (refs \cap DOMAIN h) |-> h[r]]

InitFilter ==
    /\ \E dk \in DateKinds, fk \in FlagKinds, fl \in FlagLabels, n \in 0..MaxRows :
         \E choice \in FilterRows(dk, fk, n) :
            /\ heap = (CallerRef :> MkFrame(dk, fk, fl, choice))
            /\ orig = MkFrame(dk, fk, fl, choice)
    /\ crit = NoCall
    /\ ret = NoRet
    /\ ret2 = NoRet
    /\ pc = "ready"
    /\ fs = NoFiles
    /\ cache = NoFiles
    /\ out = NoOut
    /\ session = InitSession

\* one run of the page's filter stage: the user's widget values are the inputs
CallSidebarFilters ==
    /\ pc = "ready"
    /\ \E s \in Days, e \in Days, label \in BuildingLabels, ok \in NatChoices(heap[CallerRef]) :
         LET r == create_sidebar_filters(heap, CallerRef, s, e, label, ok) IN
         /\ heap' = Live(r.heap, {CallerRef, r.ref})
         /\ ret' = [exc |-> r.exc, ref |-> r.ref]
         /\ crit' = [fn |-> "create_sidebar_filters", start_date |-> s, end_date |-> e,
                     has_range |-> TRUE, bt |-> label, btcol |-> BuildingCol(label),
                     minc |-> -1, nat_ok |-> ok]
    /\ pc' = "returned"
    /\ UNCHANGED <<orig, ret2, fs, cache, out, session>>

\* the same criteria applied to the frame the first run returned
CallSidebarFiltersAgain ==
    /\ pc = "returned"
    /\ crit.fn = "create_sidebar_filters"
    /\ ret.exc = "none"
    /\ LET r == create_sidebar_filters(heap, ret.ref, crit.start_date, crit.end_date, crit.bt,
                                       crit.nat_ok) IN
         /\ heap' = Live(r.heap, {CallerRef, ret.ref, r.ref})
         /\ ret2' = [exc |-> r.exc, ref |-> r.ref]
    /\ pc' = "again"
    /\ UNCHANGED <<orig, crit, ret, fs, cache, out, session>>

FilterDataInputs ==
    { [fn |-> "filter_data", start_date |-> s, end_date |-> e, has_range |-> hr,
       bt |-> bt, btcol |-> BuildingCol("Single Building"), minc |-> m, nat_ok |-> TRUE] :
        s \in Days, e \in Days, hr \in BOOLEAN,
        bt \in {"absent"} \cup BuildingLabels, m \in {-1, 2} }

CallFilterData ==
    /\ pc = "ready"
    /\ \E f \in {g \in FilterDataInputs : g.has_range \/ (g.start_date = 0 /\ g.end_date = 0)} :
         LET r == filter_data(heap, CallerRef, f) IN
         /\ heap' = Live(r.heap, {CallerRef, r.ref})
         /\ ret' = [exc |-> r.exc, ref |-> r.ref]
         /\ crit' = f
    /\ pc' = "returned"
    /\ UNCHANGED <<orig, ret2, fs, cache, out, session>>

\* the page's filter stage: create_sidebar_filters, once and again
NextFilter == CallSidebarFilters \/ CallSidebarFiltersAgain

Spec == InitFilter /\ [][NextFilter]_vars


\* ------------------------------------------------------------- filter stage: properties
SidebarReturned ==
    pc \in {"returned", "again"} /\ crit.fn = "create_sidebar_filters" /\ ret.exc = "none"
Result == heap[ret.ref]
IdxSeq(df) == [i \in DOMAIN df.rows |-> df.rows[i].idx]

\* the positions of rows that satisfy P, in ascending order
RECURSIVE Positions(_, _, _)
Positions(rows, P(_), i) ==
    IF i > Len(rows) THEN <<>>
    ELSE (IF P(rows[i]) THEN <<i>> ELSE <<>>) \o Positions(rows, P, i + 1)

HasDate == DateCol \in orig.columns
HasFlagColumn == crit.bt # "All" /\ BuildingCol(crit.bt) \in orig.columns
DateOf(row) == ToDatetime(row.cells[DateCol])
\* the calendar date of the row lies in [start_date, end_date]
InCalendarRange(row) ==
    /\ DateOf(row).k = "ts"
    /\ crit.start_date <= DayOf(DateOf(row).v)
    /\ DayOf(DateOf(row).v) <= crit.end_date
\* the row's instant lies between midnight of start_date and midnight of end_date
InInstantRange(row) ==
    /\ DateOf(row).k = "ts"
    /\ Timestamp(crit.start_date) <= DateOf(row).v
    /\ DateOf(row).v <= Timestamp(crit.end_date)
FlagIsOne(row) == row.cells[BuildingCol(crit.bt)] \in {Num(1), Bool(TRUE)}
PassesFlag(row) == HasFlagColumn => FlagIsOne(row)

\* C1: with a Date column, create_sidebar_filters keeps exactly the rows whose
\* calendar date d satisfies start_date <= d <= end_date, whatever their time
\* of day (and whatever else the building type filter lets through).
CalendarKept(row) == InCalendarRange(row) /\ PassesFlag(row)
C1_DateFilterByCalendarDate ==
    (SidebarReturned /\ HasDate) => IdxSeq(Result) = Positions(orig.rows, CalendarKept, 1)

\* C6: the frame the caller passed to create_sidebar_filters or filter_data
\* is, after the call, what it was before it: same rows, order, columns, cells.
C6_InputUnchanged ==
    crit.fn \in {"create_sidebar_filters", "filter_data"} => heap[CallerRef] = orig
C6_Witness ==
    /\ SidebarReturned /\ HasDate
    /\ \E i \in DOMAIN orig.rows : orig.rows[i].cells[DateCol].k = "str"
    /\ Len(Result.rows) = 1 /\ Len(orig.rows) = 2
    /\ Result.rows[1].cells[DateCol].k = "ts"

\* C7: the rows create_sidebar_filters returns are a subsequence of the rows
\* of its input: each is the input row of its index label (its Date parsed),
\* and the labels are strictly increasing, so no row is repeated or moved.
RowOfInput(r) ==
    /\ r.idx \in DOMAIN orig.rows
    /\ \A c \in orig.columns :
         r.cells[c] = (IF c = DateCol THEN DateOf(orig.rows[r.idx])
                       ELSE orig.rows[r.idx].cells[c])
C7_Subsequence ==
    SidebarReturned =>
        /\ Result.columns = orig.columns
        /\ \A i \in DOMAIN Result.rows : RowOfInput(Result.rows[i])
        /\ \A i, j \in DOMAIN Result.rows : i < j => Result.rows[i].idx < Result.rows[j].idx
C7_Witness ==
    /\ SidebarReturned /\ HasDate /\ HasFlagColumn
    /\ Len(Result.rows) = 2
    /\ Result.rows[1].cells[DateCol].v > Result.rows[2].cells[DateCol].v

\* C8: create_sidebar_filters applied with the same start_date, end_date and
\* building type to the frame it returned gives that frame again: the same
\* rows in the same order.
C8_Idempotent ==
    pc = "again" => (ret2.exc = "none" /\ heap[ret2.ref] = Result)
C8_Witness ==
    /\ pc = "again" /\ HasDate /\ HasFlagColumn
    /\ Len(Result.rows) = 1 /\ Len(orig.rows) = 2
    /\ Result.rows[1].idx = 2

\* C9: with a selector X other than "All" whose column "Building Type_X" is in
\* the frame, the result is exactly the rows that pass the date filter of
\* lines 110-114 and whose flag equals 1 (the number 1 or True); rows whose
\* flag is 0, False or null are dropped.
FlagKept(row) == (HasDate => InInstantRange(row)) /\ FlagIsOne(row)
C9_FlagFilter ==
    (SidebarReturned /\ HasFlagColumn) => IdxSeq(Result) = Positions(orig.rows, FlagKept, 1)
C9_Witness ==
    /\ SidebarReturned /\ HasFlagColumn /\ HasDate
    /\ Len(orig.rows) = 2 /\ IdxSeq(Result) = <<2>>
    /\ orig.rows[1].cells[BuildingCol(crit.bt)] = Null
    /\ InInstantRange(orig.rows[1])

\* C10: a filter that does not apply removes no row and raises nothing: with
\* "All" or a selector whose column is absent the result is what the date
\* filter leaves; without a Date column it is what the building type filter
\* leaves, and the call returns; with neither, every row is returned.
DateKept(row) == HasDate => InInstantRange(row)
C10_InapplicableFilterIsNoOp ==
    (pc \in {"returned", "again"} /\ crit.fn = "create_sidebar_filters") =>
        /\ ~HasDate => ret.exc = "none"
        /\ (ret.exc = "none" /\ ~HasFlagColumn) =>
               IdxSeq(Result) = Positions(orig.rows, DateKept, 1)
        /\ (ret.exc = "none" /\ ~HasDate) =>
               IdxSeq(Result) = Positions(orig.rows, PassesFlag, 1)
        /\ (~HasDate /\ ~HasFlagColumn) => IdxSeq(Result) = IdxSeq(orig)
C10_Witness ==
    /\ SidebarReturned /\ ~HasDate /\ crit.bt = "Tenant"
    /\ BuildingCol("Single Building") \in orig.columns
    /\ Len(orig.rows) = 2 /\ IdxSeq(Result) = <<1, 2>>

\* ------------------------------------------------------------- files
\* A file is missing, unreadable (no permission, corrupt, not parquet) or
\* holds a frame.  pd.read_parquet returns the frame or raises.
Missing == [st |-> "missing", df |-> [columns |-> {}, rows |-> <<>>, object |-> {}]]
Unreadable == [st |-> "unreadable", df |-> [columns |-> {}, rows |-> <<>>, object |-> {}]]
FileOf(df) == [st |-> "ok", df |-> df]

FileAt(files, path) == IF path \in DOMAIN files THEN files[path] ELSE Missing

read_parquet(files, path) ==
    LET f == FileAt(files, path) IN
    IF f.st = "ok" THEN [exc |-> "none", df |-> f.df]
    ELSE IF f.st = "missing" THEN [exc |-> "FileNotFoundError", df |-> f.df]
    ELSE [exc |-> "ArrowInvalid", df |-> f.df]

\* a slip: only the missing file is handled
ExceptException_OnlyNotFound(exc) == exc = "FileNotFoundError"
\* "except Exception": every exception read_parquet or pandas raises is caught
ExceptException(exc) == exc # "none"

\* str.lower(), as a table of the names with an upper-case letter that the
\* model's inputs range over (a string's characters are out of reach here);
\* a name in lower case is its own image
LowerCase ==
    [name \in {"Kansai", "KANSAI"} |-> "kansai"]
    @@ [name \in {"Kanto", "KANTO"} |-> "kanto"]
    @@ [name \in {"Transport", "TRANSPORT"} |-> "transport"]
    @@ [name \in {"Warehouse", "WAREHOUSE"} |-> "warehouse"]
    @@ [name \in {"All", "ALL"} |-> "all"]
    @@ [name \in {"Ghost", "GHOST"} |-> "ghost"]
    @@ [name \in {"Nowhere", "NOWHERE"} |-> "nowhere"]
Lower(name) == IF name \in DOMAIN LowerCase THEN LowerCase[name] ELSE name

\* f"data/processed/{region.lower()}_{industry.lower()}.parquet"
ProcessedPath(region, industry) ==
    "data/processed/" \o Lower(region) \o "_" \o Lower(industry) \o ".parquet"
\* f"data/processed/sample_{region.lower()}_{industry.lower()}.parquet"
SamplePath(region, industry) ==
    "data/processed/sample_" \o Lower(region) \o "_" \o Lower(industry) \o ".parquet"

Regions == {"Kansai", "Kanto"}
Industries == {"Transport", "Warehouse"}

\* ------------------------------------------------------------- metric values
\* A number is a fraction n/d in lowest terms (so 30/2 and 15 are equal),
\* NaN, a text, or the text "<min date> to <max date>".
RECURSIVE GCD(_, _)
GCD(a, b) == IF b = 0 THEN a ELSE GCD(b, a % b)

MInt(n) == [k |-> "num", n |-> n, d |-> 1, s |-> ""]
MFrac(a, b) == [k |-> "num", n |-> a \div GCD(a, b), d |-> b \div GCD(a, b), s |-> ""]
MNaN == [k |-> "nan", n |-> 0, d |-> 1, s |-> ""]
MText(t) == [k |-> "text", n |-> 0, d |-> 1, s |-> t]
\* f"{min.strftime('%Y-%m-%d')} to {max.strftime('%Y-%m-%d')}"
MRange(a, b) == [k |-> "text", n |-> a, d |-> b, s |-> "to"]

RECURSIVE SumNum(_)
SumNum(cells) ==
    IF cells = <<>> THEN 0
    ELSE (IF Head(cells).k = "num" THEN Head(cells).v ELSE 0) + SumNum(Tail(cells))
RECURSIVE CountNum(_)
CountNum(cells) ==
    IF cells = <<>> THEN 0
    ELSE (IF Head(cells).k = "num" THEN 1 ELSE 0) + CountNum(Tail(cells))

\* Series.mean(): the mean of the non-null values, NaN when there is none
Mean(cells) ==
    IF CountNum(cells) = 0 THEN MNaN ELSE MFrac(SumNum(cells), CountNum(cells))
\* Series.sum(): nulls count as 0
Sum(cells) == SumNum(cells)

\* a < b for two numbers that are not NaN
FracLess(a, b) == a.n * b.d < b.n * a.d

\* ------------------------------------------------------------- metrics
HourCol == "hour"
WeekendCol == "is_weekend"
EnergyCols == <<"AC", "Lighting", "Power", "Lamp", "Refrigeration", "Other">>

\* df[df[col] == value][TotalCol]
TotalWhere(df, col, value) ==
    Column(BooleanIndex(df, [i \in DOMAIN df.rows |-> df.rows[i].cells[col] = value]),
           TotalCol)

\* df["Total"].mean() if "Total" in df.columns else 0
AvgEnergy(df) ==
    IF TotalCol \in df.columns THEN Mean(Column(df, TotalCol)) ELSE MInt(0)

\* df.groupby("hour")["Total"].mean(): one group per non-null hour
HourKeys(df) ==
    {df.rows[i].cells[HourCol].v : i \in {j \in DOMAIN df.rows : df.rows[j].cells[HourCol].k = "num"}}
HourMean(df, h) == Mean(TotalWhere(df, HourCol, Num(h)))
\* a slip: on a tie the largest hour wins
IdxMaxHour_Last(df) ==
    CHOOSE h \in HourKeys(df) :
        \A g \in HourKeys(df) :
            \/ FracLess(HourMean(df, g), HourMean(df, h))
            \/ (HourMean(df, g) = HourMean(df, h) /\ g <= h)
\* .idxmax(): the first key, in ascending order, whose mean is the largest
IdxMaxHour(df) ==
    CHOOSE h \in HourKeys(df) :
        \A g \in HourKeys(df) :
            \/ FracLess(HourMean(df, g), HourMean(df, h))
            \/ (HourMean(df, g) = HourMean(df, h) /\ h <= g)
\* idxmax of an empty Series raises ValueError
PeakHour(df) ==
    IF HourCol \in df.columns /\ TotalCol \in df.columns
    THEN IF HourKeys(df) = {} THEN [exc |-> "ValueError", v |-> MInt(0)]
         ELSE [exc |-> "none", v |-> MInt(IdxMaxHour(df))]
    ELSE [exc |-> "none", v |-> MInt(0)]

WeekendAvg(df, weekend) ==
    IF WeekendCol \in df.columns /\ TotalCol \in df.columns
    THEN Mean(TotalWhere(df, WeekendCol, Bool(weekend)))
    ELSE MInt(0)

\* pd.to_datetime(df['Date']).min() / .max() skip NaT; of no value they are
\* NaT, and NaT.strftime raises ValueError
DateTicks(df) ==
    {ToDatetime(df.rows[i].cells[DateCol]).v :
        i \in {j \in DOMAIN df.rows : df.rows[j].cells[DateCol].k \in {"ts", "str"}}}
MinOf(S) == CHOOSE x \in S : \A y \in S : x <= y
MaxOf(S) == CHOOSE x \in S : \A y \in S : y <= x
DateRange(df) ==
    IF DateCol \in df.columns
    THEN IF ~CanParseColumn(df, DateCol) \/ DateTicks(df) = {}
         THEN [exc |-> "ValueError", v |-> MText("N/A")]
         ELSE [exc |-> "none",
               v |-> MRange(DayOf(MinOf(DateTicks(df))), DayOf(MaxOf(DateTicks(df))))]
    ELSE [exc |-> "none", v |-> MText("N/A")]

AvailableCols(df) == SelectSeq(EnergyCols, LAMBDA c : c \in df.columns)
\* a slip: on a tie the candidate listed last wins
get_dominant_component_LastOnTie(df) ==
    LET avail == AvailableCols(df)
        total(i) == Sum(Column(df, avail[i]))
    IN  IF avail # <<>>
        THEN MText(avail[CHOOSE i \in DOMAIN avail :
                            \A j \in DOMAIN avail :
                                total(j) < total(i) \/ (total(j) = total(i) /\ j <= i)])
        ELSE MText("N/A")
\* get_dominant_component(df): idxmax is the first of the largest sums
get_dominant_component(df) ==
    LET avail == AvailableCols(df)
        total(i) == Sum(Column(df, avail[i]))
    IN  IF avail # <<>>
        THEN MText(avail[CHOOSE i \in DOMAIN avail :
                            \A j \in DOMAIN avail :
                                total(j) < total(i) \/ (total(j) = total(i) /\ i <= j)])
        ELSE MText("N/A")

DefaultMetrics(region, industry) ==
    [region |-> region, industry |-> industry,
     total_records |-> MInt(0), avg_energy |-> MInt(0), peak_hour |-> MInt(0),
     weekend_avg |-> MInt(0), weekday_avg |-> MInt(0),
     date_range |-> MText("N/A"), dominant_component |-> MText("N/A")]

\* lines 56-85: the dict literal; an exception in any entry leaves the try block
ComputeMetrics(df, region, industry) ==
    IF PeakHour(df).exc # "none" THEN [exc |-> PeakHour(df).exc, v |-> DefaultMetrics(region, industry)]
    ELSE IF DateRange(df).exc # "none" THEN [exc |-> DateRange(df).exc, v |-> DefaultMetrics(region, industry)]
    ELSE [exc |-> "none",
          v |-> [region |-> region, industry |-> industry,
                 total_records |-> MInt(Len(df.rows)),
                 avg_energy |-> AvgEnergy(df),
                 peak_hour |-> PeakHour(df).v,
                 weekend_avg |-> WeekendAvg(df, TRUE),
                 weekday_avg |-> WeekendAvg(df, FALSE),
                 date_range |-> DateRange(df).v,
                 dominant_component |-> get_dominant_component(df)]]

\* transport_df["Industry"] = "Transport": the code of the industry's name
IndustryCol == "Industry"
IndustryCode(industry) == IF industry = "Transport" THEN 1 ELSE 2
Text(code) == [k |-> "text", v |-> code]
TagIndustry(df, industry) ==
    SetColumn(df, IndustryCol, [i \in DOMAIN df.rows |-> Text(IndustryCode(industry))], TRUE)

\* a slip: the second frame is dropped
Concat_FirstOnly(a, b) ==
    [columns |-> a.columns \cup b.columns,
     rows |-> [i \in DOMAIN a.rows |->
                 [idx |-> i,
                  cells |-> [c \in a.columns \cup b.columns |->
                               IF c \in DOMAIN a.rows[i].cells THEN a.rows[i].cells[c] ELSE Null]]],
     object |-> a.object \cup b.object]
\* pd.concat([a, b], ignore_index=True): the rows of a then of b, relabelled,
\* over the union of the columns (NaN where a frame has no such column)
Concat(a, b) ==
    LET cols == a.columns \cup b.columns
        widen(r) == [c \in cols |-> IF c \in DOMAIN r.cells THEN r.cells[c] ELSE Null]
        rows == a.rows \o b.rows
    IN  [columns |-> cols,
         rows |-> [i \in DOMAIN rows |-> [idx |-> i, cells |-> widen(rows[i])]],
         object |-> a.object \cup b.object]

\* lines 21-54: the frame the metrics are computed from, or the exception
MetricsPath(region, industry) ==
    IF Lower(region) = "kanto" THEN SamplePath(region, industry)
    ELSE ProcessedPath(region, industry)
LoadMetricsFrame(files, region, industry) ==
    IF Lower(industry) = "all"
    THEN LET t == read_parquet(files, MetricsPath(region, "Transport"))
             w == read_parquet(files, MetricsPath(region, "Warehouse"))
         IN  IF t.exc # "none" THEN t
             ELSE IF w.exc # "none" THEN w
             ELSE [exc |-> "none",
                   df |-> Concat(TagIndustry(t.df, "Transport"), TagIndustry(w.df, "Warehouse"))]
    ELSE read_parquet(files, MetricsPath(region, industry))

\* calculate_dashboard_metrics(region, industry): raised is what leaves the
\* function ("none": the except clause took it)
calculate_dashboard_metrics(files, region, industry) ==
    LET l == LoadMetricsFrame(files, region, industry)
        m == ComputeMetrics(l.df, region, industry)
        exc == IF l.exc # "none" THEN l.exc ELSE m.exc
    IN  IF exc = "none" THEN [raised |-> "none", v |-> m.v]
        ELSE IF ExceptException(exc)
             THEN [raised |-> "none", v |-> DefaultMetrics(region, industry)]
             ELSE [raised |-> exc, v |-> DefaultMetrics(region, industry)]

\* get_all_dashboard_metrics(): the six combinations, in order
Combinations ==
    << <<"Kansai", "Transport">>, <<"Kansai", "Warehouse">>, <<"Kansai", "All">>,
       <<"Kanto", "Transport">>, <<"Kanto", "Warehouse">>, <<"Kanto", "All">> >>

RECURSIVE AppendMetrics(_, _, _)
AppendMetrics(files, i, all_metrics) ==
    IF i > Len(Combinations) THEN [raised |-> "none", v |-> all_metrics]
    ELSE LET m == calculate_dashboard_metrics(files, Combinations[i][1], Combinations[i][2]) IN
         IF m.raised # "none" THEN [raised |-> m.raised, v |-> all_metrics]
         ELSE AppendMetrics(files, i + 1, Append(all_metrics, m.v))

\* a slip: the loop ends at the first combination that has no data
RECURSIVE AppendMetrics_Break(_, _, _)
AppendMetrics_Break(files, i, all_metrics) ==
    IF i > Len(Combinations) THEN [raised |-> "none", v |-> all_metrics]
    ELSE LET m == calculate_dashboard_metrics(files, Combinations[i][1], Combinations[i][2]) IN
         IF m.raised # "none" THEN [raised |-> m.raised, v |-> all_metrics]
         ELSE IF m.v = DefaultMetrics(Combinations[i][1], Combinations[i][2])
              THEN [raised |-> "none", v |-> Append(all_metrics, m.v)]
              ELSE AppendMetrics_Break(files, i + 1, Append(all_metrics, m.v))
get_all_dashboard_metrics_Break(files) == AppendMetrics_Break(files, 1, <<>>)
get_all_dashboard_metrics(files) == AppendMetrics(files, 1, <<>>)

\* ------------------------------------------------------------- data access
\* data_loader.py get_data_summary(df): the heap it leaves and the dict it
\* returns.  Line 52 assigns the parsed Date column to the frame it was
\* handed, no copy is made; an exception (pd.to_datetime of a string that
\* is no date, idxmax of no group) ends the try block and the entries not
\* yet written keep their initial None or [].
MNone == [k |-> "none", n |-> 0, d |-> 1, s |-> ""]
SummaryDateRange(df) ==
    IF DateTicks(df) = {} THEN <<Null, Null>>
    ELSE <<Ts(MinOf(DateTicks(df))), Ts(MaxOf(DateTicks(df)))>>
get_data_summary(h, df) ==
    LET hasDate == DateCol \in h[df].columns
        dateOk == hasDate => CanParseColumn(h[df], DateCol)
        h2 == IF hasDate /\ dateOk
              THEN [h EXCEPT ![df] = SetColumn(@, DateCol, ToDatetimeColumn(@, DateCol), FALSE)]
              ELSE h
        peakOk == dateOk /\ PeakHour(h2[df]).exc = "none"
    IN  IF Len(h[df].rows) = 0 \/ h[df].columns = {}
        THEN [heap |-> h, summary |-> [empty |-> TRUE]]
        ELSE [heap |-> h2,
              summary |->
                [empty |-> FALSE,
                 total_records |-> Len(h[df].rows),
                 date_range |-> IF hasDate /\ dateOk THEN SummaryDateRange(h2[df]) ELSE <<>>,
                 avg_total_consumption |->
                    IF dateOk /\ TotalCol \in h[df].columns
                    THEN Mean(Column(h[df], TotalCol)) ELSE MNone,
                 peak_hour |->
                    IF peakOk /\ HourCol \in h[df].columns /\ TotalCol \in h[df].columns
                    THEN PeakHour(h2[df]).v ELSE MNone,
                 weekend_vs_weekday |->
                    IF peakOk /\ WeekendCol \in h[df].columns /\ TotalCol \in h[df].columns
                    THEN <<WeekendAvg(h[df], TRUE), WeekendAvg(h[df], FALSE)>> ELSE <<>>,
                 building_types |->
                    IF peakOk
                    THEN {c \in h[df].columns : \E l \in BuildingLabels : c = BuildingCol(l)}
                    ELSE {},
                 energy_components |-> IF peakOk THEN AvailableCols(h[df]) ELSE <<>>]]

\* get_data_summary on the caller's frame
GetDataSummary ==
    /\ pc = "ready"
    /\ heap' = get_data_summary(heap, CallerRef).heap
    /\ out' = [fn |-> "get_data_summary", v |-> get_data_summary(heap, CallerRef).summary]
    /\ crit' = [NoCall EXCEPT !.fn = "get_data_summary"]
    /\ ret' = [exc |-> "none", ref |-> CallerRef]
    /\ pc' = "returned"
    /\ UNCHANGED <<orig, ret2, fs, cache, session>>

\* the functions that are handed the caller's frame, on the same frames
NextFilterStage == CallSidebarFilters \/ CallFilterData \/ GetDataSummary

SpecFilterStage == InitFilter /\ [][NextFilterStage]_vars

NoneValue == [none |-> TRUE, df |-> [columns |-> {}, rows |-> <<>>, object |-> {}]]
Some(df) == [none |-> FALSE, df |-> df]

\* the body of a loader: try: return pd.read_parquet(path) / except Exception:
\* st.error(...); return None
TryRead(files, path) ==
    LET r == read_parquet(files, path) IN
    IF r.exc = "none" THEN [raised |-> "none", v |-> Some(r.df)]
    ELSE IF ExceptException(r.exc) THEN [raised |-> "none", v |-> NoneValue]
    ELSE [raised |-> r.exc, v |-> NoneValue]

\* a slip: no cache, every call reads the file and stores what it read
load_parquet_data_NoCache(files, memo, file_path) ==
    [raised |-> TryRead(files, file_path).raised, v |-> TryRead(files, file_path).v,
     memo |-> [p \in DOMAIN memo \cup {file_path} |->
                 IF p = file_path THEN TryRead(files, file_path).v ELSE memo[p]]]
\* data_loader.py load_parquet_data(file_path) under @st.cache_data: a path
\* already in the cache is answered from it, a returned value is stored
load_parquet_data(files, memo, file_path) ==
    IF file_path \in DOMAIN memo
    THEN [raised |-> "none", v |-> memo[file_path], memo |-> memo]
    ELSE LET r == TryRead(files, file_path) IN
         [raised |-> r.raised, v |-> r.v,
          memo |-> IF r.raised = "none" THEN memo @@ (file_path :> r.v) ELSE memo]

\* dynamic_dashboard.py load_dashboard_data(region, industry)
load_dashboard_data(files, region, industry) ==
    IF Lower(industry) = "all"
    THEN LET t == read_parquet(files, ProcessedPath(region, "Transport"))
             w == read_parquet(files, ProcessedPath(region, "Warehouse"))
             exc == IF t.exc # "none" THEN t.exc ELSE w.exc
         IN  IF exc = "none"
             THEN [raised |-> "none",
                   v |-> Some(Concat(TagIndustry(t.df, "Transport"),
                                     TagIndustry(w.df, "Warehouse")))]
             ELSE IF ExceptException(exc) THEN [raised |-> "none", v |-> NoneValue]
             ELSE [raised |-> exc, v |-> NoneValue]
    ELSE TryRead(files, ProcessedPath(region, industry))

\* kansai_transport.py load_data()
KansaiTransportPath == "data/processed/kansai_transport.parquet"
load_data(files) == TryRead(files, KansaiTransportPath)

\* ------------------------------------------------------------- metric frames
\* The frames a processed file can hold, within the bounds: any subset of
\* the columns Total, hour, is_weekend, Date and the components AC and
\* Lighting; Date is a datetime column (midnight Timestamps, NaT) or an
\* object column (date strings and strings that are no date).
TotalCells == {Num(1), Num(2)}
HourCells == {Num(0), Num(1)}
WeekendCells == {Bool(TRUE), Bool(FALSE)}
MetricDateCells(kind) ==
    CASE kind = "datetime" -> {Ts(Timestamp(d)) : d \in Days} \cup {Null}
      [] kind = "object" -> {Str(d) : d \in Days} \cup {Bad}
      [] OTHER -> {Null}
Opt(present, cells) == IF present THEN cells ELSE {Null}

MetricColumns(ht, hh, hw, dk, hc) ==
    (IF ht THEN {TotalCol} ELSE {}) \cup (IF hh THEN {HourCol} ELSE {})
    \cup (IF hw THEN {WeekendCol} ELSE {}) \cup (IF dk = "absent" THEN {} ELSE {DateCol})
    \cup (IF hc THEN {"AC", "Lighting"} ELSE {})

MkMetricFrame(ht, hh, hw, dk, hc, choice) ==
    [columns |-> MetricColumns(ht, hh, hw, dk, hc),
     rows |-> [i \in DOMAIN choice |->
        [idx |-> i,
         cells |-> [c \in MetricColumns(ht, hh, hw, dk, hc) |->
            CASE c = TotalCol -> choice[i][1]
              [] c = HourCol -> choice[i][2]
              [] c = WeekendCol -> choice[i][3]
              [] c = DateCol -> choice[i][4]
              [] c = "AC" -> Num(i)
              [] OTHER -> Num(1)]]],
     object |-> IF dk = "object" THEN {DateCol} ELSE {}]

MetricRows(ht, hh, hw, dk, n) ==
    [1..n -> Opt(ht, TotalCells) \X Opt(hh, HourCells)
             \X Opt(hw, WeekendCells) \X MetricDateCells(dk)]

\* ------------------------------------------------------------- metrics: one file
InitMetrics ==
    /\ \E ht \in BOOLEAN, hh \in BOOLEAN, hw \in BOOLEAN, dk \in DateKinds,
          hc \in BOOLEAN, n \in 0..MaxRows :
         \E choice \in MetricRows(ht, hh, hw, dk, n) :
            fs = (ProcessedPath("Kansai", "Transport")
                    :> FileOf(MkMetricFrame(ht, hh, hw, dk, hc, choice)))
    /\ heap = <<>> /\ orig = [columns |-> {}, rows |-> <<>>, object |-> {}]
    /\ crit = NoCall /\ ret = NoRet /\ ret2 = NoRet
    /\ cache = NoFiles
    /\ out = NoOut
    /\ session = InitSession
    /\ pc = "ready"

CalcMetricsOf(region, industry) ==
    /\ pc = "ready"
    /\ LET r == calculate_dashboard_metrics(fs, region, industry) IN
         out' = [fn |-> "calculate_dashboard_metrics", region |-> region,
                 industry |-> industry, raised |-> r.raised, v |-> r.v]
    /\ pc' = "done"
    /\ UNCHANGED <<heap, orig, crit, ret, ret2, fs, cache, session>>

\* the overview card of Kansai Transport
CalcKansaiTransport == CalcMetricsOf("Kansai", "Transport")

NextMetrics == CalcKansaiTransport

SpecMetrics == InitMetrics /\ [][NextMetrics]_vars

\* ------------------------------------------------------------- data access: all files
LoadPaths ==
    {ProcessedPath(r, i) : r \in Regions, i \in Industries}
    \cup {SamplePath("Kanto", i) : i \in Industries}
\* every file that can be read holds a frame of its own: all the columns,
\* one row in a transport file and two in a warehouse file, a Total that
\* tells the files apart
PathCode(path) ==
    CASE path = ProcessedPath("Kansai", "Transport") -> 1
      [] path = ProcessedPath("Kansai", "Warehouse") -> 2
      [] path = ProcessedPath("Kanto", "Transport") -> 3
      [] path = ProcessedPath("Kanto", "Warehouse") -> 4
      [] path = SamplePath("Kanto", "Transport") -> 5
      [] OTHER -> 6
SampleRow(path) == <<Num(PathCode(path)), Num(0), Bool(FALSE), Ts(Timestamp(0))>>
SampleFrame(path) ==
    MkMetricFrame(TRUE, TRUE, TRUE, "datetime", TRUE,
                  IF PathCode(path) % 2 = 1 THEN <<SampleRow(path)>>
                  ELSE <<SampleRow(path), SampleRow(path)>>)
FileStates == {"missing", "unreadable", "ok"}
FileIn(path, st) ==
    IF st = "ok" THEN FileOf(SampleFrame(path))
    ELSE IF st = "missing" THEN Missing ELSE Unreadable

InitLoad ==
    /\ \E st \in [LoadPaths -> FileStates] : fs = [p \in LoadPaths |-> FileIn(p, st[p])]
    /\ heap = <<>> /\ orig = [columns |-> {}, rows |-> <<>>, object |-> {}]
    /\ crit = NoCall /\ ret = NoRet /\ ret2 = NoRet
    /\ cache = NoFiles
    /\ out = NoOut
    /\ session = InitSession
    /\ pc = "ready"

LoadParquetData ==
    /\ pc = "ready"
    /\ \E path \in LoadPaths \cup {ProcessedPath("Ghost", "Nowhere")} :
         LET r == load_parquet_data(fs, cache, path) IN
         /\ out' = [fn |-> "load_parquet_data", path |-> path, raised |-> r.raised, v |-> r.v]
         /\ cache' = r.memo
    /\ pc' = "done"
    /\ UNCHANGED <<heap, orig, crit, ret, ret2, fs, session>>

LoadDashboardData ==
    /\ pc = "ready"
    /\ \E region \in Regions, industry \in Industries \cup {"All"} :
         LET r == load_dashboard_data(fs, region, industry) IN
         out' = [fn |-> "load_dashboard_data", region |-> region, industry |-> industry,
                 raised |-> r.raised, v |-> r.v]
    /\ pc' = "done"
    /\ UNCHANGED <<heap, orig, crit, ret, ret2, fs, cache, session>>

LoadData ==
    /\ pc = "ready"
    /\ LET r == load_data(fs) IN
         out' = [fn |-> "load_data", raised |-> r.raised, v |-> r.v]
    /\ pc' = "done"
    /\ UNCHANGED <<heap, orig, crit, ret, ret2, fs, cache, session>>

CalcMetrics ==
    \E region \in Regions, industry \in Industries \cup {"All"} :
        CalcMetricsOf(region, industry)

GetAllDashboardMetrics ==
    /\ pc = "ready"
    /\ LET r == get_all_dashboard_metrics(fs) IN
         out' = [fn |-> "get_all_dashboard_metrics", raised |-> r.raised, v |-> r.v]
    /\ pc' = "done"
    /\ UNCHANGED <<heap, orig, crit, ret, ret2, fs, cache, session>>

NextLoad ==
    \/ LoadParquetData
    \/ LoadDashboardData
    \/ LoadData
    \/ CalcMetrics
    \/ GetAllDashboardMetrics

SpecLoad == InitLoad /\ [][NextLoad]_vars

\* ------------------------------------------------------------- metrics: properties
MetricsFile == FileAt(fs, ProcessedPath("Kansai", "Transport"))
MetricsDone == out.fn = "calculate_dashboard_metrics"

\* what each field is by itself: its value when its own computation
\* succeeds, its documented default otherwise
OwnAvgEnergy(df) ==
    IF TotalCol \in df.columns /\ Len(df.rows) > 0 THEN Mean(Column(df, TotalCol)) ELSE MInt(0)
OwnPeakHour(df) == IF PeakHour(df).exc = "none" THEN PeakHour(df).v ELSE MInt(0)
OwnDateRange(df) == IF DateRange(df).exc = "none" THEN DateRange(df).v ELSE MText("N/A")

\* C2: calculate_dashboard_metrics never raises, and a field whose computation
\* fails falls back to its default while the other fields keep the values
\* computed from the table: total_records is the row count, avg_energy the
\* mean of Total, peak_hour and date_range their own value or default.
C2_FieldsDegradeAlone ==
    (MetricsDone /\ MetricsFile.st = "ok") =>
        /\ out.raised = "none"
        /\ out.v.total_records = MInt(Len(MetricsFile.df.rows))
        /\ out.v.avg_energy = OwnAvgEnergy(MetricsFile.df)
        /\ out.v.peak_hour = OwnPeakHour(MetricsFile.df)
        /\ out.v.date_range = OwnDateRange(MetricsFile.df)

\* ------------------------------------------------------------- data access: properties
FilesRead(region, industry) ==
    IF industry = "All"
    THEN {MetricsPath(region, "Transport"), MetricsPath(region, "Warehouse")}
    ELSE {MetricsPath(region, industry)}
LoadFails(files, region, industry) ==
    \E p \in FilesRead(region, industry) : FileAt(files, p).st # "ok"
\* the files with every file outside keep replaced by a file in state st
Only(files, keep, st) ==
    [p \in DOMAIN files |-> IF p \in keep THEN files[p] ELSE FileIn(p, st)]

\* C3: get_all_dashboard_metrics returns one record per combination, in the
\* order of the list, each with its own region and industry; a combination
\* whose data cannot be loaded holds the default record, and each record is
\* what it is whatever becomes of the files the other combinations read.
C3_BatchIsolation ==
    out.fn = "get_all_dashboard_metrics" =>
        /\ out.raised = "none"
        /\ Len(out.v) = Len(Combinations)
        /\ \A i \in DOMAIN Combinations :
            LET r == Combinations[i][1]
                ind == Combinations[i][2]
            IN  /\ out.v[i].region = r /\ out.v[i].industry = ind
                /\ LoadFails(fs, r, ind) => out.v[i] = DefaultMetrics(r, ind)
                /\ \A st \in FileStates :
                     out.v[i] = calculate_dashboard_metrics(Only(fs, FilesRead(r, ind), st), r, ind).v
C3_Witness ==
    /\ out.fn = "get_all_dashboard_metrics"
    /\ LoadFails(fs, "Kansai", "Warehouse")
    /\ ~LoadFails(fs, "Kansai", "Transport")
    /\ ~LoadFails(fs, "Kanto", "All")
    /\ Len(out.v) = 6
    /\ out.v[1].total_records = MInt(1)
    /\ out.v[2] = DefaultMetrics("Kansai", "Warehouse")
    /\ out.v[6].total_records = MInt(3)

\* C4: load_parquet_data, load_dashboard_data and load_data return None and
\* raise nothing when the file is missing or unreadable, and the file's whole
\* table when it can be read.
LoaderPath ==
    IF out.fn = "load_parquet_data" THEN out.path
    ELSE IF out.fn = "load_data" THEN KansaiTransportPath
    ELSE ProcessedPath(out.region, out.industry)
SingleFileLoad ==
    out.fn \in {"load_parquet_data", "load_data"}
    \/ (out.fn = "load_dashboard_data" /\ out.industry # "All")
C4_LoadersReturnNone ==
    /\ out.fn \in {"load_parquet_data", "load_data", "load_dashboard_data"} =>
           out.raised = "none"
    /\ SingleFileLoad =>
           out.v = (IF FileAt(fs, LoaderPath).st = "ok"
                    THEN Some(FileAt(fs, LoaderPath).df) ELSE NoneValue)
    /\ (out.fn = "load_dashboard_data" /\ out.industry = "All") =>
           (out.v.none <=> \E i \in Industries :
                               FileAt(fs, ProcessedPath(out.region, i)).st # "ok")
C4_Witness ==
    /\ out.fn = "load_dashboard_data" /\ out.industry = "Warehouse"
    /\ FileAt(fs, LoaderPath).st = "unreadable"
    /\ out.raised = "none" /\ out.v = NoneValue

\* ------------------------------------------------------------- dashboard page
\* The first exception of a list of stage outcomes, "none" when there is none
RECURSIVE FirstExc(_)
FirstExc(excs) ==
    IF excs = <<>> THEN "none"
    ELSE IF Head(excs) # "none" THEN Head(excs) ELSE FirstExc(Tail(excs))

\* df[col] of a column the frame does not have raises KeyError
Need(df, col) == IF col \in df.columns THEN "none" ELSE "KeyError"

\* lines 66-80: the four header metrics, in order
HeaderMetrics(df) ==
    FirstExc(<< Need(df, TotalCol),
                Need(df, HourCol),
                IF HourCol \in df.columns /\ TotalCol \in df.columns /\ HourKeys(df) = {}
                THEN "ValueError" ELSE "none",
                Need(df, WeekendCol) >>)

\* display_energy_breakdown_tab: nothing without a component column; with
\* one, the charts group by Date, hour, weekday and month and read Total and
\* is_weekend
EnergyBreakdownTab(df) ==
    IF AvailableCols(df) = <<>> THEN "none"
    ELSE FirstExc(<< Need(df, DateCol), Need(df, HourCol), Need(df, TotalCol),
                     Need(df, "weekday"), Need(df, "month"), Need(df, WeekendCol) >>)

\* ------------------------------------------------------------- calendar
\* Day 0 of the model is the calendar date EpochDate; a Timestamp of tick t
\* falls on the day DayOf(t) days later.  Days are counted from 1970-01-01
\* (a Thursday) by the proleptic Gregorian calendar, as pandas does.
EpochDate == [year |-> 2012, month |-> 12, day |-> 30]

days_from_civil(y0, m, d) ==
    LET y == IF m <= 2 THEN y0 - 1 ELSE y0
        era == y \div 400
        yoe == y - era * 400
        doy == (153 * (IF m > 2 THEN m - 3 ELSE m + 9) + 2) \div 5 + d - 1
        doe == yoe * 365 + yoe \div 4 - yoe \div 100 + doy
    IN  era * 146097 + doe - 719468

civil_from_days(z0) ==
    LET z == z0 + 719468
        era == z \div 146097
        doe == z - era * 146097
        yoe == (doe - doe \div 1460 + doe \div 36524 - doe \div 146096) \div 365
        doy == doe - (365 * yoe + yoe \div 4 - yoe \div 100)
        mp == (5 * doy + 2) \div 153
        d == doy - (153 * mp + 2) \div 5 + 1
        m == IF mp < 10 THEN mp + 3 ELSE mp - 9
        y == yoe + era * 400 + (IF m <= 2 THEN 1 ELSE 0)
    IN  [year |-> y, month |-> m, day |-> d]

\* days since 1970-01-01 of the calendar day of tick t
AbsDay(t) == days_from_civil(EpochDate.year, EpochDate.month, EpochDate.day) + DayOf(t)

\* Timestamp.weekday(): Monday is 0, Sunday is 6
Weekday(z) == (z + 3) % 7

\* dt.to_period("W"): the week ending on Sunday (W-SUN) that holds the day;
\* the ordinal counts such weeks
WeekPeriod_SundayStart(z) == (z + 4) \div 7
WeekPeriod(z) == (z + 3) \div 7
\* dt.to_period("M"): the ordinal counts months
MonthPeriod_MonthOnly(z) == civil_from_days(z).month - 1
MonthPeriod(z) == civil_from_days(z).year * 12 + civil_from_days(z).month - 1

\* ------------------------------------------------------------- aggregation
\* sidebar.py display_time_series_section(df, time_aggregation): the Series
\* consumption_data handed to the chart, as the sequence of its (key, sum)
\* pairs, or the exception that leaves the function.
Buckets == {"Daily", "Weekly", "Monthly"}

\* the dtype of the Date column is datetime64, not object
IsDatetimeColumn(df) == DateCol \notin df.object

\* The group key of a Date cell.  Daily groups by the value of the cell
\* itself (line 257), Weekly and Monthly by its period (lines 261, 266).
GroupKey(time_aggregation, cell) ==
    IF time_aggregation = "Daily" THEN [freq |-> cell.k, ord |-> cell.v]
    ELSE IF time_aggregation = "Weekly"
    THEN [freq |-> "W", ord |-> WeekPeriod(AbsDay(cell.v))]
    ELSE [freq |-> "M", ord |-> MonthPeriod(AbsDay(cell.v))]

\* groupby drops the rows whose key is null (dropna=True)
GroupKeys_KeepNull(df, time_aggregation) ==
    {GroupKey(time_aggregation, df.rows[i].cells[DateCol]) : i \in DOMAIN df.rows}
GroupKeys(df, time_aggregation) ==
    {GroupKey(time_aggregation, df.rows[i].cells[DateCol]) :
        i \in {j \in DOMAIN df.rows : df.rows[j].cells[DateCol].k # "null"}}

\* the order of the keys: Timestamps and periods by time, strings as strings
\* ("2012-12-30" < "not a date")
KeyRank(key) == IF key.freq = "bad" THEN 1 ELSE 0
KeyLess(a, b) ==
    KeyRank(a) < KeyRank(b) \/ (KeyRank(a) = KeyRank(b) /\ a.ord < b.ord)

\* groupby sorts the group keys (sort=True)
RECURSIVE SortKeys(_)
SortKeys(S) ==
    IF S = {} THEN <<>>
    ELSE LET m == CHOOSE x \in S : \A y \in S : x = y \/ KeyLess(x, y)
         IN  <<m>> \o SortKeys(S \ {m})

\* a slip: groups in the order of first appearance (sort=False)
RECURSIVE FirstSeen(_, _)
FirstSeen(keys, seen) ==
    IF keys = <<>> THEN <<>>
    ELSE IF Head(keys) \in seen THEN FirstSeen(Tail(keys), seen)
    ELSE <<Head(keys)>> \o FirstSeen(Tail(keys), seen \cup {Head(keys)})
GroupOrder_FirstSeen(df, time_aggregation) ==
    FirstSeen(SelectSeq([i \in DOMAIN df.rows |->
                            GroupKey(time_aggregation, df.rows[i].cells[DateCol])],
                        LAMBDA k : k \in GroupKeys(df, time_aggregation)), {})
GroupOrder(df, time_aggregation) == SortKeys(GroupKeys(df, time_aggregation))

\* ["Total"].sum() of one group: nulls count as 0
GroupSum(df, time_aggregation, key) ==
    Sum(Column(BooleanIndex(df, [i \in DOMAIN df.rows |->
            /\ df.rows[i].cells[DateCol].k # "null"
            /\ GroupKey(time_aggregation, df.rows[i].cells[DateCol]) = key]), TotalCol))

GroupBySum(df, time_aggregation) ==
    [n \in DOMAIN GroupOrder(df, time_aggregation) |->
        [key |-> GroupOrder(df, time_aggregation)[n],
         value |-> GroupSum(df, time_aggregation, GroupOrder(df, time_aggregation)[n])]]

\* sidebar.py load_temperature_data(region_name).  os.path.exists is true of
\* a file that is there, readable or not.
TemperaturePath(region_name) ==
    "data/processed/temperature_" \o Lower(region_name) \o ".parquet"
GeneralTemperaturePath == "data/processed/temperature_data.parquet"
Exists(files, path) == FileAt(files, path).st # "missing"

load_temperature_data(files, region_name) ==
    IF Exists(files, TemperaturePath(region_name))
    THEN TryRead(files, TemperaturePath(region_name))
    ELSE IF Exists(files, GeneralTemperaturePath)
    THEN TryRead(files, GeneralTemperaturePath)
    ELSE [raised |-> "none", v |-> NoneValue]

\* create_energy_consumption_chart(consumption_data, title_suffix,
\* region_name): the exception that leaves it, "none" when it returns the
\* figure.  The temperature table is loaded first; an index that is neither
\* a period nor a datetime index (object_index) goes through pd.to_datetime,
\* which raises on a key that is no date; with a temperature table its date
\* column is parsed and its temperature column read after the merge.
create_energy_consumption_chart(files, consumption_data, object_index, region_name) ==
    LET temp_data == IF region_name = "" THEN [raised |-> "none", v |-> NoneValue]
                     ELSE load_temperature_data(files, region_name)
    IN  IF temp_data.raised # "none" THEN temp_data.raised
        ELSE IF object_index
                /\ \E n \in DOMAIN consumption_data : consumption_data[n].key.freq = "bad"
        THEN "ValueError"
        ELSE IF temp_data.v.none THEN "none"
        ELSE IF "date" \notin temp_data.v.df.columns THEN "KeyError"
        ELSE IF ~CanParseColumn(temp_data.v.df, "date") THEN "ValueError"
        ELSE IF "temperature" \notin temp_data.v.df.columns THEN "KeyError"
        ELSE "none"

\* df["Date"] of a frame without the column raises KeyError, .dt of a column
\* that is not datetime raises AttributeError, ["Total"] of a groupby
\* without the column raises KeyError; the chart is made last (lines 270-273)
display_time_series_section(files, df, time_aggregation, region_name) ==
    IF DateCol \notin df.columns THEN [raised |-> "KeyError", data |-> <<>>]
    ELSE IF time_aggregation # "Daily" /\ ~IsDatetimeColumn(df)
    THEN [raised |-> "AttributeError", data |-> <<>>]
    ELSE IF TotalCol \notin df.columns THEN [raised |-> "KeyError", data |-> <<>>]
    ELSE IF create_energy_consumption_chart(
                files, GroupBySum(df, time_aggregation),
                time_aggregation = "Daily" /\ ~IsDatetimeColumn(df), region_name) # "none"
    THEN [raised |-> create_energy_consumption_chart(
                        files, GroupBySum(df, time_aggregation),
                        time_aggregation = "Daily" /\ ~IsDatetimeColumn(df), region_name),
          data |-> <<>>]
    ELSE [raised |-> "none", data |-> GroupBySum(df, time_aggregation)]

\* ------------------------------------------------------------- aggregation: the two functions of sidebar.py
\* create_sidebar_filters and display_time_series_section applied to frames:
\* the first to the caller's frame, the second to the caller's frame as it
\* is or to the frame the first has returned.
\* The frames: a Date column that is absent, datetime (midnights of four
\* days, one later instant of day 1, NaT) or object (date strings, None, a
\* string that is no date) and a Total column, absent or of numbers and NaN.
\* Day 0 is Sunday 2012-12-30, day 1 Monday 2012-12-31, day 2 Tuesday
\* 2013-01-01 and day 365 Monday 2013-12-30.
AggDays == {0, 1, 2, 365}
AggDateCells(kind) ==
    CASE kind = "datetime" ->
            {Ts(Timestamp(d)) : d \in AggDays} \cup {Ts(Timestamp(1) + 1), Null}
      [] kind = "object" -> {Str(d) : d \in AggDays} \cup {Null, Bad}
      [] OTHER -> {Null}
AggTotalCells == {Num(1), Num(2), Null}
AggRows(ht, dk, n) ==
    [1..n -> Opt(ht, AggTotalCells) \X {Null} \X {Null} \X AggDateCells(dk)]

InitAggregate ==
    /\ \E ht \in BOOLEAN, dk \in DateKinds, n \in 0..MaxRows :
         \E choice \in AggRows(ht, dk, n) :
            /\ heap = (CallerRef :> MkMetricFrame(ht, FALSE, FALSE, dk, FALSE, choice))
            /\ orig = MkMetricFrame(ht, FALSE, FALSE, dk, FALSE, choice)
    /\ crit = NoCall
    /\ ret = NoRet
    /\ ret2 = NoRet
    /\ pc = "ready"
    /\ fs = NoFiles
    /\ cache = NoFiles
    /\ out = NoOut
    /\ session = InitSession

\* create_sidebar_filters(df) on the caller's frame, with the date inputs
\* anywhere in the data's range and the building type left at "All"
FilterForTimeSeries ==
    /\ pc = "ready"
    /\ \E s \in AggDays, e \in AggDays, ok \in NatChoices(heap[CallerRef]) :
         /\ heap' = Live(create_sidebar_filters(heap, CallerRef, s, e, "All", ok).heap,
                         {CallerRef, create_sidebar_filters(heap, CallerRef, s, e, "All", ok).ref})
         /\ ret' = [exc |-> create_sidebar_filters(heap, CallerRef, s, e, "All", ok).exc,
                    ref |-> create_sidebar_filters(heap, CallerRef, s, e, "All", ok).ref]
         /\ crit' = [fn |-> "create_sidebar_filters", start_date |-> s, end_date |-> e,
                     has_range |-> TRUE, bt |-> "All", btcol |-> BuildingCol("All"),
                     minc |-> -1, nat_ok |-> ok]
    /\ pc' = "returned"
    /\ UNCHANGED <<orig, ret2, fs, cache, out, session>>

\* what a call leaves to observe: the frame it was given (its reference),
\* the exception that left it and the Series handed to the chart
TimeSeriesOut(time_aggregation, df, r) ==
    [fn |-> "display_time_series_section", time_aggregation |-> time_aggregation,
     df |-> df, raised |-> r.raised, data |-> r.data]

\* display_time_series_section(df, time_aggregation, "Kansai") on a frame of
\* the heap: the caller's, or the one create_sidebar_filters returned
DisplayTimeSeries ==
    /\ pc \in {"ready", "returned"}
    /\ \E df \in DOMAIN heap, b \in Buckets :
         out' = TimeSeriesOut(b, df, display_time_series_section(fs, heap[df], b, "Kansai"))
    /\ pc' = "done"
    /\ UNCHANGED <<heap, orig, crit, ret, ret2, fs, cache, session>>

NextAggregate == FilterForTimeSeries \/ DisplayTimeSeries

SpecAggregate == InitAggregate /\ [][NextAggregate]_vars

\* ------------------------------------------------------------- aggregation: properties
AggDone == pc = "done" /\ out.fn = "display_time_series_section"
AggInput == heap[out.df]
\* the aggregated frame is the one create_sidebar_filters returned
Filtered == crit.fn = "create_sidebar_filters" /\ ret.exc = "none" /\ out.df = ret.ref
Computed(time_aggregation) ==
    AggDone /\ out.time_aggregation = time_aggregation /\ out.raised = "none"
DateCell(df, i) == df.rows[i].cells[DateCol]
Dated(df) == {i \in DOMAIN df.rows : DateCell(df, i).k # "null"}
AllParsed(df) == \A i \in Dated(df) : DateCell(df, i).k \in {"ts", "str"}
\* the calendar day, counted from 1970-01-01, of a Date cell
CalDay(cell) == IF cell.k = "ts" THEN AbsDay(cell.v) ELSE AbsDay(Timestamp(cell.v))
RECURSIVE TotalOver(_, _)
TotalOver(df, S) ==
    IF S = {} THEN 0
    ELSE LET i == CHOOSE j \in S : TRUE
             c == df.rows[i].cells[TotalCol]
         IN  (IF c.k = "num" THEN c.v ELSE 0) + TotalOver(df, S \ {i})
\* the calendar day a Daily bucket stands for
DailyKeyDay(key) == IF key.freq = "ts" THEN AbsDay(key.ord) ELSE AbsDay(Timestamp(key.ord))
MondayOf(z) == z - Weekday(z)
YearMonth(z) == <<civil_from_days(z).year, civil_from_days(z).month>>

\* C11: the Daily aggregate has exactly one bucket per distinct calendar
\* date among the non-null Date values, rows of one calendar day sharing a
\* bucket whatever their time of day, and a bucket's value is the sum of
\* Total over the rows of its date.
C11_DailyBucketsAreCalendarDates ==
    Computed("Daily") =>
        LET df == AggInput
            days == {CalDay(DateCell(df, i)) : i \in Dated(df)}
        IN  /\ Len(out.data) = Cardinality(days)
            /\ \A d \in days : \E n \in DOMAIN out.data :
                  /\ DailyKeyDay(out.data[n].key) = d
                  /\ out.data[n].value =
                        TotalOver(df, {i \in Dated(df) : CalDay(DateCell(df, i)) = d})

\* C12: the Weekly aggregate has one bucket per Monday-to-Sunday week that
\* holds a row's date, also across a month or year boundary, and a bucket's
\* value is the sum of Total over the rows of its week.
C12_WeeklyBucketsAreMondayWeeks ==
    Computed("Weekly") =>
        LET df == AggInput
            mondays == {MondayOf(CalDay(DateCell(df, i))) : i \in Dated(df)}
        IN  /\ Len(out.data) = Cardinality(mondays)
            /\ \A m \in mondays : \E n \in DOMAIN out.data :
                  /\ 7 * out.data[n].key.ord - 3 = m
                  /\ out.data[n].value =
                        TotalOver(df, {i \in Dated(df) : MondayOf(CalDay(DateCell(df, i))) = m})
\* Monday 2012-12-31 and Tuesday 2013-01-01 share one bucket
C12_Witness ==
    /\ Computed("Weekly")
    /\ Len(AggInput.rows) = 2
    /\ DateCell(AggInput, 1) = Ts(Timestamp(1)) /\ DateCell(AggInput, 2) = Ts(Timestamp(2))
    /\ Len(out.data) = 1 /\ out.data[1].value = 3

\* C13: the Monthly aggregate has one bucket per (year, month) of a row's
\* date, whose value is the sum of Total over the rows of that month of that
\* year; the same month number in different years gives different buckets.
C13_MonthlyBucketsAreYearMonths ==
    Computed("Monthly") =>
        LET df == AggInput
            months == {YearMonth(CalDay(DateCell(df, i))) : i \in Dated(df)}
        IN  /\ Len(out.data) = Cardinality(months)
            /\ \A m \in months : \E n \in DOMAIN out.data :
                  /\ <<out.data[n].key.ord \div 12, (out.data[n].key.ord % 12) + 1>> = m
                  /\ out.data[n].value =
                        TotalOver(df, {i \in Dated(df) : YearMonth(CalDay(DateCell(df, i))) = m})
\* December 2012 and December 2013 are two buckets
C13_Witness ==
    /\ Computed("Monthly")
    /\ Len(AggInput.rows) = 2
    /\ DateCell(AggInput, 1) = Ts(Timestamp(0)) /\ DateCell(AggInput, 2) = Ts(Timestamp(365))
    /\ Len(out.data) = 2
    /\ out.data[2].key.ord = out.data[1].key.ord + 12

\* C14: a row whose Date cannot be parsed does not make create_sidebar_filters
\* followed by display_time_series_section raise: the filters return, and the
\* aggregate is computed from the other rows.
HasUnparseable(df) ==
    DateCol \in df.columns /\ \E i \in DOMAIN df.rows : DateCell(df, i).k = "bad"
C14_UnparseableDateExcluded ==
    (HasUnparseable(orig) /\ TotalCol \in orig.columns) =>
        /\ (pc = "returned" /\ crit.fn = "create_sidebar_filters") => ret.exc = "none"
        /\ (AggDone /\ Filtered) => out.raised = "none"

\* C15, as stated: in any table, with a Date column of any dtype, a row with
\* a null Date makes no bucket, a row with a null Total adds 0 to its bucket,
\* and neither raises.  Stated for tables whose other dates are dates
\* (Timestamps or date strings), so that only the null rows are in question.
RECURSIVE SumValues(_)
SumValues(data) == IF data = <<>> THEN 0 ELSE Head(data).value + SumValues(Tail(data))
HasNullRow(df) ==
    \E i \in DOMAIN df.rows :
        DateCell(df, i).k = "null" \/ df.rows[i].cells[TotalCol].k = "null"
NullRowsContributeNothing ==
    /\ out.raised = "none"
    /\ Len(out.data) <= Cardinality(Dated(AggInput))
    /\ \A n \in DOMAIN out.data : \E i \in Dated(AggInput) :
          GroupKey(out.time_aggregation, DateCell(AggInput, i)) = out.data[n].key
    /\ SumValues(out.data) = TotalOver(AggInput, Dated(AggInput))
C15_NullRowsOfAnyTable ==
    (AggDone /\ DateCol \in AggInput.columns /\ TotalCol \in AggInput.columns
        /\ AllParsed(AggInput) /\ HasNullRow(AggInput)) => NullRowsContributeNothing

\* C15, amended: in a table whose Date column is a datetime column, which is
\* what create_sidebar_filters returns and what line 252 relies on, a row
\* with a null Date makes no bucket, a row with a null Total adds 0 to its
\* bucket, and neither raises: every bucket is the bucket of a row with a
\* Date, and the buckets' values add up to the Total of the rows that have
\* both a Date and a Total.
C15_NullRowsContributeNothing ==
    (AggDone /\ DateCol \in AggInput.columns /\ TotalCol \in AggInput.columns
        /\ IsDatetimeColumn(AggInput)) => NullRowsContributeNothing
C15_Witness ==
    /\ AggDone /\ out.raised = "none" /\ IsDatetimeColumn(AggInput)
    /\ Len(AggInput.rows) = 2
    /\ DateCell(AggInput, 1) = Null /\ AggInput.rows[1].cells[TotalCol] = Num(2)
    /\ DateCell(AggInput, 2) = Ts(Timestamp(1)) /\ AggInput.rows[2].cells[TotalCol] = Null
    /\ Len(out.data) = 1 /\ out.data[1].value = 0

\* C16: whatever the order of the rows, the buckets are in strictly
\* ascending order of period start.
StartTick(key) ==
    CASE key.freq = "ts" -> AbsDay(0) * TicksPerDay + key.ord
      [] key.freq = "str" -> (AbsDay(0) + key.ord) * TicksPerDay
      [] key.freq = "W" -> (7 * key.ord - 3) * TicksPerDay
      [] key.freq = "M" -> days_from_civil(key.ord \div 12, (key.ord % 12) + 1, 1) * TicksPerDay
      [] OTHER -> 0
EmptyTable(df) == Len(df.rows) = 0 /\ DateCol \in df.columns /\ TotalCol \in df.columns
C17_EmptyTableEmptyAggregate ==
    EmptyTable(orig) =>
        /\ (pc = "returned" /\ crit.fn = "create_sidebar_filters") => ret.exc = "none"
        /\ (AggDone /\ Filtered) => (out.raised = "none" /\ out.data = <<>>)
C17_Witness ==
    /\ EmptyTable(orig)
    /\ AggDone /\ Filtered /\ out.time_aggregation = "Monthly"
    /\ out.raised = "none" /\ out.data = <<>>

\* ------------------------------------------------------------- metrics: the fields
MetricsTable == MetricsFile.df
MetricsOfTable == MetricsDone /\ MetricsFile.st = "ok"

\* C18: of an empty table, whatever columns it has, calculate_dashboard_metrics
\* returns total_records 0, avg_energy 0, peak_hour 0, weekend_avg 0,
\* weekday_avg 0, date_range "N/A" and dominant_component "N/A".
C18_EmptyTableDefaults ==
    (MetricsOfTable /\ Len(MetricsTable.rows) = 0) =>
        /\ out.raised = "none"
        /\ out.v = DefaultMetrics(out.region, out.industry)

\* C19: avg_energy is the arithmetic mean of Total over the rows of the
\* table, and the number 0, never NaN and never an exception, when the Total
\* column is absent or the table has no rows.
C19_AvgEnergyIsMean ==
    MetricsOfTable =>
        /\ out.raised = "none"
        /\ out.v.avg_energy.k = "num"
        /\ out.v.avg_energy =
              (IF TotalCol \in MetricsTable.columns /\ Len(MetricsTable.rows) > 0
               THEN MFrac(TotalOver(MetricsTable, DOMAIN MetricsTable.rows),
                          Len(MetricsTable.rows))
               ELSE MInt(0))

\* C20: peak_hour is the hour whose mean Total over its rows is the largest,
\* the smallest such hour on a tie, and 0 when the hour or the Total column
\* is absent.
HourRows(df, h) == {i \in DOMAIN df.rows : df.rows[i].cells[HourCol] = Num(h)}
HoursOf(df) ==
    {df.rows[i].cells[HourCol].v :
        i \in {j \in DOMAIN df.rows : df.rows[j].cells[HourCol].k = "num"}}
\* mean of hour g <= mean of hour h
MeanLeq(df, g, h) ==
    TotalOver(df, HourRows(df, g)) * Cardinality(HourRows(df, h))
        <= TotalOver(df, HourRows(df, h)) * Cardinality(HourRows(df, g))
IsPeak(df, h) == \A g \in HoursOf(df) : MeanLeq(df, g, h)
C20_PeakHourSmallestOnTie ==
    (MetricsOfTable /\ Len(MetricsTable.rows) > 0) =>
        IF HourCol \in MetricsTable.columns /\ TotalCol \in MetricsTable.columns
        THEN /\ out.v.peak_hour.k = "num" /\ out.v.peak_hour.d = 1
             /\ out.v.peak_hour.n \in HoursOf(MetricsTable)
             /\ IsPeak(MetricsTable, out.v.peak_hour.n)
             /\ \A g \in HoursOf(MetricsTable) :
                   IsPeak(MetricsTable, g) => out.v.peak_hour.n <= g
        ELSE out.v.peak_hour = MInt(0)

\* C21: weekend_avg and weekday_avg are the means of Total over the rows
\* with is_weekend true and false, and each is the number 0 when the
\* is_weekend or Total column is absent or the table has no row of its class.
ClassRows(df, weekend) ==
    {i \in DOMAIN df.rows : df.rows[i].cells[WeekendCol] = Bool(weekend)}
ClassMean(df, weekend) ==
    IF WeekendCol \in df.columns /\ TotalCol \in df.columns /\ ClassRows(df, weekend) # {}
    THEN MFrac(TotalOver(df, ClassRows(df, weekend)), Cardinality(ClassRows(df, weekend)))
    ELSE MInt(0)
C21_WeekendWeekdayMeans ==
    MetricsOfTable =>
        /\ out.v.weekend_avg = ClassMean(MetricsTable, TRUE)
        /\ out.v.weekday_avg = ClassMean(MetricsTable, FALSE)

\* ------------------------------------------------------------- metrics: the dominant component
\* The frames: any of the candidate columns AC, Lighting, Power and Other,
\* each cell 1 or 2, so that sums tie and differ.
ComponentCols == {"AC", "Lighting", "Power", "Other"}
ComponentCells == {Num(1), Num(2)}

InitDominant ==
    /\ \E cols \in SUBSET ComponentCols, n \in 0..MaxRows :
         \E choice \in [1..n -> [cols -> ComponentCells]] :
            /\ heap = (CallerRef :> [columns |-> cols,
                                     rows |-> [i \in 1..n |-> [idx |-> i, cells |-> choice[i]]],
                                     object |-> {}])
            /\ orig = [columns |-> cols,
                       rows |-> [i \in 1..n |-> [idx |-> i, cells |-> choice[i]]],
                       object |-> {}]
    /\ crit = NoCall
    /\ ret = NoRet
    /\ ret2 = NoRet
    /\ pc = "ready"
    /\ fs = NoFiles
    /\ cache = NoFiles
    /\ out = NoOut
    /\ session = InitSession

GetDominantComponent ==
    /\ pc = "ready"
    /\ out' = [fn |-> "get_dominant_component", v |-> get_dominant_component(heap[CallerRef])]
    /\ pc' = "done"
    /\ UNCHANGED <<heap, orig, crit, ret, ret2, fs, cache, session>>

NextDominant == GetDominantComponent

SpecDominant == InitDominant /\ [][NextDominant]_vars

\* C22: get_dominant_component returns the present candidate column with the
\* largest column sum, the one listed first in AC, Lighting, Power, Lamp,
\* Refrigeration, Other when several share it, and "N/A" when no candidate
\* is present.
RECURSIVE ColumnTotal(_, _, _)
ColumnTotal(df, col, S) ==
    IF S = {} THEN 0
    ELSE LET i == CHOOSE j \in S : TRUE
             c == df.rows[i].cells[col]
         IN  (IF c.k = "num" THEN c.v ELSE 0) + ColumnTotal(df, col, S \ {i})
ColSum(df, col) == ColumnTotal(df, col, DOMAIN df.rows)
Listed(col) == CHOOSE i \in DOMAIN EnergyCols : EnergyCols[i] = col
Present(df) == {c \in Range(EnergyCols) : c \in df.columns}
C22_DominantComponent ==
    out.fn = "get_dominant_component" =>
        IF Present(orig) = {} THEN out.v = MText("N/A")
        ELSE \E c \in Present(orig) :
                /\ out.v = MText(c)
                /\ \A d \in Present(orig) :
                      \/ ColSum(orig, d) < ColSum(orig, c)
                      \/ (ColSum(orig, d) = ColSum(orig, c) /\ Listed(c) <= Listed(d))
\* Lighting and Power tie above AC: Lighting is returned
C22_Witness ==
    /\ out.fn = "get_dominant_component"
    /\ orig.columns = {"AC", "Lighting", "Power"}
    /\ ColSum(orig, "AC") < ColSum(orig, "Lighting")
    /\ ColSum(orig, "Lighting") = ColSum(orig, "Power")
    /\ out.v = MText("Lighting")

\* ------------------------------------------------------------- overview and page: the same file
\* C23: for every region and every industry of Transport and Warehouse the
\* overview metrics are computed from
\* data/processed/{region_lowercase}_{industry_lowercase}.parquet, the file
\* load_dashboard_data loads for the pair: they are the metrics of that
\* file's table, and the default record when that file cannot be loaded.
PageFileOf(region, industry) == FileAt(fs, ProcessedPath(region, industry))
C23_MetricsFromPageFile ==
    (out.fn = "calculate_dashboard_metrics" /\ out.industry \in Industries) =>
        out.v = (IF PageFileOf(out.region, out.industry).st = "ok"
                 THEN ComputeMetrics(PageFileOf(out.region, out.industry).df,
                                     out.region, out.industry).v
                 ELSE DefaultMetrics(out.region, out.industry))

\* ------------------------------------------------------------- files that change, the cache, temperature data
\* The files: the four tables load_parquet_data is called with (main.py
\* 36-51, for Kansai and Kanto) and the temperature files, each missing,
\* unreadable or holding a table of its own.
CachedPaths == {ProcessedPath(r, i) : r \in Regions, i \in Industries}
TemperaturePaths == {TemperaturePath(r) : r \in Regions} \cup {GeneralTemperaturePath}
TemperatureCode(path) ==
    CASE path = TemperaturePath("Kansai") -> 1
      [] path = TemperaturePath("Kanto") -> 2
      [] OTHER -> 3
TemperatureFrame(path) ==
    [columns |-> {"date", "temperature"},
     rows |-> <<[idx |-> 1, cells |-> [c \in {"date", "temperature"} |->
                    IF c = "date" THEN Ts(Timestamp(0)) ELSE Num(TemperatureCode(path))]]>>,
     object |-> {}]
TableOf(path) == IF path \in CachedPaths THEN SampleFrame(path) ELSE TemperatureFrame(path)
FileOnDisk(path, st) ==
    IF st = "ok" THEN FileOf(TableOf(path))
    ELSE IF st = "missing" THEN Missing ELSE Unreadable

InitFiles ==
    /\ \E st \in [CachedPaths -> FileStates] :
         fs = [p \in CachedPaths |-> FileOnDisk(p, st[p])]
    /\ heap = <<>> /\ orig = [columns |-> {}, rows |-> <<>>, object |-> {}]
    /\ crit = NoCall /\ ret = NoRet /\ ret2 = NoRet
    /\ cache = NoFiles
    /\ out = NoOut
    /\ pc = "ready"
    /\ session = InitSession

\* what a call of load_parquet_data leaves to observe: hit says that the
\* path was in the cache, st is the state of the file at the call
CachedLoadOut(path, hit, st, r) ==
    [fn |-> "load_parquet_data", path |-> path, hit |-> hit, st |-> st,
     raised |-> r.raised, v |-> r.v]

\* load_parquet_data(path), any number of times in the process
CallLoadParquetData ==
    /\ \E path \in CachedPaths :
         /\ out' = CachedLoadOut(path, path \in DOMAIN cache, FileAt(fs, path).st,
                                 load_parquet_data(fs, cache, path))
         /\ cache' = load_parquet_data(fs, cache, path).memo
    /\ UNCHANGED <<heap, orig, crit, ret, ret2, pc, fs, session>>

\* the environment: a file appears, disappears or becomes unreadable
FileChanges ==
    /\ \E path \in DOMAIN fs, st \in FileStates :
         /\ fs[path].st # st
         /\ fs' = [fs EXCEPT ![path] = FileOnDisk(path, st)]
    /\ UNCHANGED <<heap, orig, crit, ret, ret2, pc, cache, out, session>>

TemperatureOut(region_name, r) ==
    [fn |-> "load_temperature_data", region |-> region_name, raised |-> r.raised, v |-> r.v]

\* load_temperature_data(region_name) against files that change while it
\* runs: each access to the file system is a step of its own, and pc is
\* the line the call has reached.  Line 20: os.path.exists(region_file).
CallLoadTemperatureData ==
    /\ pc \in {"ready", "returned"}
    /\ \E region_name \in Regions :
         /\ crit' = [fn |-> "load_temperature_data", region |-> region_name]
         /\ pc' = IF Exists(fs, TemperaturePath(region_name)) THEN "line21" ELSE "line33"
    /\ UNCHANGED <<heap, orig, ret, ret2, fs, cache, out, session>>

\* line 21: pd.read_parquet(region_file), returned at line 29, or the
\* except clause of lines 46-48
ReadRegionFile ==
    /\ pc = "line21"
    /\ out' = TemperatureOut(crit.region, TryRead(fs, TemperaturePath(crit.region)))
    /\ pc' = "returned"
    /\ UNCHANGED <<heap, orig, crit, ret, ret2, fs, cache, session>>

\* line 33: os.path.exists(general_file); without the file None is
\* returned at line 45
CheckGeneralFile ==
    /\ pc = "line33"
    /\ IF Exists(fs, GeneralTemperaturePath)
       THEN pc' = "line34" /\ out' = out
       ELSE /\ pc' = "returned"
            /\ out' = TemperatureOut(crit.region, [raised |-> "none", v |-> NoneValue])
    /\ UNCHANGED <<heap, orig, crit, ret, ret2, fs, cache, session>>

\* line 34: pd.read_parquet(general_file), returned at line 42, or the
\* except clause
ReadGeneralFile ==
    /\ pc = "line34"
    /\ out' = TemperatureOut(crit.region, TryRead(fs, GeneralTemperaturePath))
    /\ pc' = "returned"
    /\ UNCHANGED <<heap, orig, crit, ret, ret2, fs, cache, session>>

NextFiles == CallLoadParquetData \/ FileChanges

SpecFiles == InitFiles /\ [][NextFiles]_vars

InitTemperature ==
    /\ \E st \in [TemperaturePaths -> FileStates] :
         fs = [p \in TemperaturePaths |-> FileOnDisk(p, st[p])]
    /\ heap = <<>> /\ orig = [columns |-> {}, rows |-> <<>>, object |-> {}]
    /\ crit = NoCall /\ ret = NoRet /\ ret2 = NoRet
    /\ cache = NoFiles
    /\ out = NoOut
    /\ pc = "ready"
    /\ session = InitSession

NextTemperature ==
    \/ CallLoadTemperatureData
    \/ ReadRegionFile
    \/ CheckGeneralFile
    \/ ReadGeneralFile
    \/ FileChanges

SpecTemperature == InitTemperature /\ [][NextTemperature]_vars

\* C24: load_parquet_data is a read-through cache keyed by the exact path.
\* An entry, once made, is never changed or evicted; a call for a path in
\* the cache returns the entry whatever the file is now; an entry is made
\* from the file of its own path; a call never writes the files.
ReadOf(path) == IF FileAt(fs, path).st = "ok" THEN Some(FileAt(fs, path).df) ELSE NoneValue
C24_Step ==
    /\ \A p \in DOMAIN cache : p \in DOMAIN cache' /\ cache'[p] = cache[p]
    /\ \A q \in DOMAIN cache' \ DOMAIN cache : cache'[q] = ReadOf(q)
    /\ out'.fn = "load_parquet_data" =>
          /\ out'.path \in DOMAIN cache'
          /\ out'.v = cache'[out'.path]
          /\ out'.path \in DOMAIN cache => out'.v = cache[out'.path]
    /\ (cache' # cache \/ out' # out) => fs' = fs
C24_ReadThroughCache == [][C24_Step]_vars
\* a second load returns the cached table although the file is gone
C24_Witness ==
    /\ out.fn = "load_parquet_data"
    /\ out.hit /\ out.st = "missing"
    /\ out.path = ProcessedPath("Kansai", "Warehouse")
    /\ out.v = Some(SampleFrame(out.path))
    /\ ProcessedPath("Kansai", "Transport") \in DOMAIN cache
    /\ cache[ProcessedPath("Kansai", "Transport")] = NoneValue

\* C30: load_temperature_data never raises and returns the table of
\* temperature_{region_lowercase}.parquet when that file can be loaded,
\* otherwise the table of temperature_data.parquet when that file can be
\* loaded, and None only when neither can be loaded.  Stated for the files
\* as they are when the call returns, for calls whose answers from
\* os.path.exists still hold then (no file appeared or vanished under it).
TemperatureOf(files, region_name) ==
    IF FileAt(files, TemperaturePath(region_name)).st = "ok"
    THEN Some(FileAt(files, TemperaturePath(region_name)).df)
    ELSE IF FileAt(files, GeneralTemperaturePath).st = "ok"
    THEN Some(FileAt(files, GeneralTemperaturePath).df)
    ELSE NoneValue
AnswersStillHold ==
    /\ pc = "line21" => Exists(fs, TemperaturePath(crit.region))
    /\ pc \in {"line33", "line34"} => ~Exists(fs, TemperaturePath(crit.region))
    /\ pc = "line34" => Exists(fs, GeneralTemperaturePath)
C30_Step ==
    (pc \in {"line21", "line33", "line34"} /\ pc' = "returned" /\ AnswersStillHold) =>
        /\ out'.fn = "load_temperature_data" /\ out'.region = crit.region
        /\ out'.raised = "none"
        /\ out'.v = TemperatureOf(fs, crit.region)
\* the file vanished between os.path.exists and pd.read_parquet: None, with
\* a readable general file
C30_FileVanishedUnderCall ==
    /\ pc = "returned" /\ out.fn = "load_temperature_data" /\ out.v = NoneValue
    /\ FileAt(fs, TemperaturePath(out.region)).st = "missing"
    /\ FileAt(fs, GeneralTemperaturePath).st = "ok"
C30_TemperatureFallback == [][C30_Step]_vars

\* ------------------------------------------------------------- navigation (main.py)
\* One run of the script is one action.  A run starts from the session
\* state and the widget values the browser sends: the two selectors and at
\* most one clicked button.  A run with a button clicked writes the session
\* state and ends in st.rerun() before the content is reached: it renders
\* nothing, and the script runner starts the next run with no button
\* clicked, unless the browser sends another event first.

\* a slip: Home names a page main() does not know
create_sidebar_navigation_HomeLanding(s, clicked) ==
    IF clicked = "view_dashboard_btn"
    THEN [s EXCEPT !.current_page = "dashboard",
                   !.selected_region = s.region_selector,
                   !.selected_industry = s.industry_selector]
    ELSE IF clicked = "home_btn"
    THEN [s EXCEPT !.current_page = "landing"]
    ELSE s

\* create_sidebar_navigation(): the session state it leaves, the same in
\* main.py 255-281 and in landing_page.py 169-195 (which differ in the
\* options of the industry selectbox)
create_sidebar_navigation(s, clicked) ==
    IF clicked = "view_dashboard_btn"
    THEN [s EXCEPT !.current_page = "dashboard",
                   !.selected_region = s.region_selector,
                   !.selected_industry = s.industry_selector]
    ELSE IF clicked = "home_btn"
    THEN [s EXCEPT !.current_page = "home"]
    ELSE s

\* a slip: the dashboard follows the sidebar selectors
MainContent_SidebarSelection(s) ==
    IF s.current_page = "home" THEN [page |-> "landing"]
    ELSE IF s.current_page = "dashboard"
    THEN [page |-> "dashboard", region |-> s.region_selector, industry |-> s.industry_selector]
    ELSE [page |-> "landing"]

\* main(), lines 304-313: what the run renders
MainContent(s) ==
    IF s.current_page = "home" THEN [page |-> "landing"]
    ELSE IF s.current_page = "dashboard"
    THEN [page |-> "dashboard", region |-> s.selected_region, industry |-> s.selected_industry]
    ELSE [page |-> "landing"]

RegionOptions == {"Kansai", "Kanto"}
IndustryOptions == {"Transport", "Warehouse"}

\* create_japan_map_data(), main.py 37-55: the cache of load_parquet_data it
\* leaves.  Each region's transport and warehouse file, in this order, is
\* loaded through the cache when os.path.exists finds it.
MapFiles ==
    << ProcessedPath("Kansai", "Transport"), ProcessedPath("Kansai", "Warehouse"),
       ProcessedPath("Kanto", "Transport"), ProcessedPath("Kanto", "Warehouse") >>
RECURSIVE LoadMapFiles(_, _, _)
LoadMapFiles(files, memo, paths) ==
    IF paths = <<>> THEN memo
    ELSE LoadMapFiles(files,
                      IF Exists(files, Head(paths))
                      THEN load_parquet_data(files, memo, Head(paths)).memo
                      ELSE memo,
                      Tail(paths))
create_japan_map_data(files, memo) == LoadMapFiles(files, memo, MapFiles)

\* the cache a run of main() that reaches the content leaves: the landing
\* page draws the map (show_landing_page, line 201), the dashboard reads its
\* files without the cache
MainCache(s, files, memo) ==
    IF MainContent(s).page = "landing" THEN create_japan_map_data(files, memo) ELSE memo

InitNavigation ==
    /\ heap = <<>> /\ orig = [columns |-> {}, rows |-> <<>>, object |-> {}]
    /\ crit = NoCall /\ ret = NoRet /\ ret2 = NoRet
    /\ fs = NoFiles /\ cache = NoFiles
    /\ out = NoOut
    /\ pc = "ready"
    /\ session = InitSession

\* what a run of main() that reaches the content leaves to observe: the
\* event that caused it and the content rendered from the session state s
MainOut(event, s) == [fn |-> "main", event |-> event, content |-> MainContent(s)]

\* the event behind a run with no widget changed: the click whose run ended
\* in st.rerun() (pc is the line of that st.rerun()), or none
PendingEvent ==
    CASE pc = "line274" -> "view_dashboard_btn"
      [] pc = "line279" -> "home_btn"
      [] OTHER -> "rerun"

\* a run with no widget changed: the first run, the run st.rerun() starts,
\* or a rerun some other widget causes
Rerun ==
    /\ session' = create_sidebar_navigation(session, "none")
    /\ out' = MainOut(PendingEvent, session')
    /\ cache' = MainCache(session', fs, cache)
    /\ pc' = "run"
    /\ UNCHANGED <<heap, orig, crit, ret, ret2, fs>>

ChangeRegionSelector ==
    /\ \E region \in RegionOptions \ {session.region_selector} :
         session' = create_sidebar_navigation(
                        [session EXCEPT !.region_selector = region], "none")
    /\ out' = MainOut("region_selector", session')
    /\ cache' = MainCache(session', fs, cache)
    /\ pc' = "run"
    /\ UNCHANGED <<heap, orig, crit, ret, ret2, fs>>

ChangeIndustrySelector ==
    /\ \E industry \in IndustryOptions \ {session.industry_selector} :
         session' = create_sidebar_navigation(
                        [session EXCEPT !.industry_selector = industry], "none")
    /\ out' = MainOut("industry_selector", session')
    /\ cache' = MainCache(session', fs, cache)
    /\ pc' = "run"
    /\ UNCHANGED <<heap, orig, crit, ret, ret2, fs>>

\* the run with View Dashboard clicked: lines 270-274, ended by st.rerun()
ClickViewDashboard ==
    /\ session' = create_sidebar_navigation(session, "view_dashboard_btn")
    /\ pc' = "line274"
    /\ UNCHANGED <<heap, orig, crit, ret, ret2, fs, cache, out>>

\* the run with Home clicked: lines 277-279, ended by st.rerun()
ClickHome ==
    /\ session' = create_sidebar_navigation(session, "home_btn")
    /\ pc' = "line279"
    /\ UNCHANGED <<heap, orig, crit, ret, ret2, fs, cache, out>>

NextNavigation ==
    Rerun \/ ChangeRegionSelector \/ ChangeIndustrySelector \/ ClickViewDashboard \/ ClickHome

SpecNavigation == InitNavigation /\ [][NextNavigation]_vars

\* landing_page.py 169-195: the same sidebar with All among the industries.
\* No script of the repository calls it; a run of it is given any selector
\* values and at most one clicked button.
LandingIndustryOptions == {"All", "Transport", "Warehouse"}
LandingSidebarNavigation ==
    /\ \E region \in RegionOptions, industry \in LandingIndustryOptions,
          clicked \in {"none", "view_dashboard_btn", "home_btn"} :
         /\ session' = create_sidebar_navigation(
                          [session EXCEPT !.region_selector = region,
                                          !.industry_selector = industry], clicked)
         /\ pc' = CASE clicked = "view_dashboard_btn" -> "line188"
                    [] clicked = "home_btn" -> "line193"
                    [] OTHER -> "run"
    /\ UNCHANGED <<heap, orig, crit, ret, ret2, fs, cache, out>>
SpecLandingNavigation == InitNavigation /\ [][LandingSidebarNavigation]_vars

\* C25: current_page is home or dashboard, selected_region is Kansai or
\* Kanto, selected_industry is Transport or Warehouse (never All); before
\* the first event the state is (home, Kansai, Transport); a run that
\* renders renders the landing page exactly when current_page is home.
C25_NavigationInvariant ==
    /\ session.current_page \in {"home", "dashboard"}
    /\ session.selected_region \in {"Kansai", "Kanto"}
    /\ session.selected_industry \in {"Transport", "Warehouse"}
    /\ pc = "ready" =>
          /\ session.current_page = "home"
          /\ session.selected_region = "Kansai"
          /\ session.selected_industry = "Transport"
    /\ pc = "run" =>
          /\ out.fn = "main"
          /\ out.content.page = "landing" <=> session.current_page = "home"
\* Home clicked after the dashboard of Kanto Warehouse was confirmed, and
\* the run after the click has rendered
C25_Witness ==
    /\ pc = "run"
    /\ out.fn = "main" /\ out.event = "home_btn"
    /\ out.content.page = "landing"
    /\ session.current_page = "home"
    /\ session.selected_region = "Kanto"
    /\ session.selected_industry = "Warehouse"

\* C26: the displayed dataset changes only through View Dashboard.  A click
\* with sidebar selection (r, i) sets current_page to dashboard and the
\* selection to (r, i), and the next run renders the dashboard of (r, i); a
\* selector change leaves current_page and the selection unchanged and the
\* dashboard keeps the confirmed pair; Home sets current_page to home and
\* leaves the selection unchanged.
Selection(s) == <<s.selected_region, s.selected_industry>>
Selectors(s) == <<s.region_selector, s.industry_selector>>
DashboardOf(pair) == [page |-> "dashboard", region |-> pair[1], industry |-> pair[2]]
C26_Step ==
    /\ pc' = "line274" =>
          /\ session'.current_page = "dashboard"
          /\ Selection(session') = Selectors(session)
    /\ (pc = "line274" /\ pc' = "run") => out'.content = DashboardOf(Selection(session))
    /\ Selectors(session') # Selectors(session) =>
          /\ session'.current_page = session.current_page
          /\ Selection(session') = Selection(session)
          /\ session.current_page = "dashboard" =>
                out'.content = DashboardOf(Selection(session))
    /\ pc' = "line279" =>
          /\ session'.current_page = "home"
          /\ Selection(session') = Selection(session)
    /\ Selection(session') # Selection(session) => pc' = "line274"
    /\ (out.fn = "main" /\ out.content.page = "dashboard" /\ out'.content.page = "dashboard"
        /\ out'.content # out.content) => pc = "line274"
C26_OnlyViewDashboardChangesDataset == [][C26_Step]_vars
\* the selectors were moved to Kanto Warehouse and the dashboard still
\* shows the confirmed Kansai Transport
C26_Witness ==
    /\ pc = "run"
    /\ out.fn = "main" /\ out.event = "industry_selector"
    /\ session.region_selector = "Kanto" /\ session.industry_selector = "Warehouse"
    /\ session.current_page = "dashboard"
    /\ out.content = DashboardOf(<<"Kansai", "Transport">>)
\* View Dashboard was clicked with Kanto Warehouse selected and the run
\* after the click renders that dashboard
C26_WitnessClick ==
    /\ pc = "run"
    /\ out.fn = "main" /\ out.event = "view_dashboard_btn"
    /\ out.content = DashboardOf(<<"Kanto", "Warehouse">>)

\* ------------------------------------------------------------- dashboard page: main() to the time series tab
\* display_dashboard_content(region, industry) up to the time series tab,
\* with the widgets' values start_date, end_date, label and
\* time_aggregation: the stage it reached and the exception that left it
\* ("none": it went on)
display_dashboard_content(files, region, industry, start_date, end_date, label, nat_ok, time_aggregation) ==
    LET l == load_dashboard_data(files, region, industry) IN
    IF l.raised # "none" THEN [stage |-> "load", raised |-> l.raised, records |-> 0]
    ELSE IF l.v.none THEN [stage |-> "no_data", raised |-> "none", records |-> 0]
    ELSE
    LET f == create_sidebar_filters((CallerRef :> l.v.df), CallerRef,
                                    start_date, end_date, label, nat_ok)
        df == f.heap[f.ref]
    IN  IF f.exc # "none" THEN [stage |-> "filters", raised |-> f.exc, records |-> 0]
        ELSE IF HeaderMetrics(df) # "none"
        THEN [stage |-> "header", raised |-> HeaderMetrics(df), records |-> Len(df.rows)]
        ELSE IF EnergyBreakdownTab(df) # "none"
        THEN [stage |-> "energy_breakdown", raised |-> EnergyBreakdownTab(df),
              records |-> Len(df.rows)]
        ELSE IF display_time_series_section(files, df, time_aggregation, region).raised
                    # "none"
        THEN [stage |-> "time_series",
              raised |-> display_time_series_section(files, df, time_aggregation,
                                                     region).raised,
              records |-> Len(df.rows)]
        ELSE [stage |-> "rendered", raised |-> "none", records |-> Len(df.rows)]

\* The file of the first dashboard is missing, unreadable or holds a frame;
\* the session is as main() initialises it (lines 293-299), and the first
\* run of the script has not reached the content yet
InitPage ==
    /\ \/ \E ht \in BOOLEAN, hh \in BOOLEAN, hw \in BOOLEAN, dk \in DateKinds, n \in 0..MaxRows :
            \E choice \in MetricRows(ht, hh, hw, dk, n) :
               fs = (ProcessedPath("Kansai", "Transport")
                       :> FileOf(MkMetricFrame(ht, hh, hw, dk, FALSE, choice)))
       \/ fs \in {(ProcessedPath("Kansai", "Transport") :> Missing),
                  (ProcessedPath("Kansai", "Transport") :> Unreadable)}
    /\ heap = <<>> /\ orig = [columns |-> {}, rows |-> <<>>, object |-> {}]
    /\ crit = NoCall /\ ret = NoRet /\ ret2 = NoRet
    /\ cache = NoFiles
    /\ out = NoOut
    /\ session = InitSession
    /\ pc = "ready"

PageFrame == FileAt(fs, ProcessedPath("Kansai", "Transport")).df

\* What one run of the page leaves to observe
PageOut(region, industry, r) ==
    [fn |-> "display_dashboard_content", region |-> region, industry |-> industry,
     stage |-> r.stage, raised |-> r.raised, records |-> r.records]

\* main(), lines 307-311, in the run st.rerun() starts after View Dashboard
\* (pc is line 274).  With current_page == "dashboard" it renders the
\* dashboard of the session's selected_region and selected_industry, with
\* the values of the sidebar's widgets; nothing between the page and the
\* script's top level catches an exception.
RenderDashboard ==
    /\ pc = "line274"
    /\ session.current_page = "dashboard"
    /\ IF load_dashboard_data(fs, session.selected_region, session.selected_industry).v.none
       THEN /\ out' = PageOut(session.selected_region, session.selected_industry,
                   display_dashboard_content(fs, session.selected_region,
                       session.selected_industry, 0, 0, "All", TRUE, "Daily"))
            /\ crit' = NoCall
       ELSE \E s \in Days, e \in Days, label \in BuildingLabels,
               ok \in NatChoices(PageFrame), b \in Buckets :
            /\ out' = PageOut(session.selected_region, session.selected_industry,
                   display_dashboard_content(fs, session.selected_region,
                       session.selected_industry, s, e, label, ok, b))
            /\ crit' = [fn |-> "create_sidebar_filters", start_date |-> s,
                        end_date |-> e, has_range |-> TRUE, bt |-> label,
                        btcol |-> BuildingCol(label), minc |-> -1, nat_ok |-> ok]
    /\ pc' = "done"
    /\ UNCHANGED <<heap, orig, ret, ret2, fs, cache, session>>

\* the first run of the script: the landing page, whose map loads the
\* files through the cache
FirstRun ==
    /\ pc = "ready"
    /\ Rerun

\* the first event of the session: View Dashboard clicked on the landing
\* page the first run has rendered (main.py 270-274)
ViewDashboardFromHome ==
    /\ pc = "run"
    /\ ClickViewDashboard

\* the first run, one click of View Dashboard and the run that follows
NextPage == FirstRun \/ ViewDashboardFromHome \/ RenderDashboard

SpecPage == InitPage /\ [][NextPage]_vars

\* C5: on the dashboard page, a filtered table that lacks Total, hour,
\* is_weekend or Date, or has no rows, makes no exception leave
\* display_dashboard_content for main(): the page is rendered with defaults.
C5_PageNeverRaises ==
    out.fn = "display_dashboard_content" => out.raised = "none"

\* ------------------------------------------------------------- filter stage: defaults and the two filters
\* C27: with the sidebar at its defaults (start date the earliest calendar
\* date of Date, end date the latest, building type All),
\* create_sidebar_filters returns every row whose Date is not null, rows on
\* the latest date with a time after midnight included.
DatedTicks ==
    {DateOf(orig.rows[i]).v : i \in {j \in DOMAIN orig.rows : DateOf(orig.rows[j]).k = "ts"}}
EarliestTick == CHOOSE t \in DatedTicks : \A u \in DatedTicks : t <= u
LatestTick == CHOOSE t \in DatedTicks : \A u \in DatedTicks : u <= t
AtDefaults ==
    /\ HasDate /\ DatedTicks # {}
    /\ crit.start_date = DayOf(EarliestTick)
    /\ crit.end_date = DayOf(LatestTick)
    /\ crit.bt = "All"
DateNotNull(row) == DateOf(row).k = "ts"
C27_DefaultsKeepEveryDatedRow ==
    (SidebarReturned /\ AtDefaults) => IdxSeq(Result) = Positions(orig.rows, DateNotNull, 1)

\* C28: filter_data with filters["building_type"] = X other than All keeps
\* exactly the rows whose column Building Type_X is 1/true and removes no
\* row when that column is absent, as create_sidebar_filters does.  Stated
\* for calls with no date range and no min_consumption, where the building
\* type filter alone decides.
BuildingTypeOnly ==
    /\ pc = "returned" /\ crit.fn = "filter_data"
    /\ crit.bt \notin {"absent", "All"}
    /\ ~crit.has_range /\ crit.minc = -1
C28_FilterDataFlagFilter ==
    BuildingTypeOnly => IdxSeq(Result) = Positions(orig.rows, PassesFlag, 1)

\* ------------------------------------------------------------- industry All
\* C29: loading industry All for a region is all-or-nothing.  When both
\* the transport and the warehouse file load, the table is the transport
\* rows followed by the warehouse rows, each tagged with its industry, and
\* has as many rows as the two together; when either fails to load the
\* result is None (load_dashboard_data) or the default record
\* (calculate_dashboard_metrics).  The two files are the ones the function
\* reads for the region.
TaggedRow(row, industry, i) ==
    [idx |-> i,
     cells |-> [c \in DOMAIN row.cells \cup {IndustryCol} |->
                  IF c = IndustryCol THEN Text(IndustryCode(industry)) ELSE row.cells[c]]]
BothIndustries(t, w) ==
    [columns |-> t.columns \cup w.columns \cup {IndustryCol},
     rows |-> [i \in 1..(Len(t.rows) + Len(w.rows)) |->
                 IF i <= Len(t.rows) THEN TaggedRow(t.rows[i], "Transport", i)
                 ELSE TaggedRow(w.rows[i - Len(t.rows)], "Warehouse", i)],
     object |-> t.object \cup w.object \cup {IndustryCol}]
AllOf(transport_file, warehouse_file) ==
    BothIndustries(FileAt(fs, transport_file).df, FileAt(fs, warehouse_file).df)
BothLoad(transport_file, warehouse_file) ==
    FileAt(fs, transport_file).st = "ok" /\ FileAt(fs, warehouse_file).st = "ok"
C29_AllIsAllOrNothing ==
    /\ (out.fn = "load_dashboard_data" /\ out.industry = "All") =>
          /\ out.raised = "none"
          /\ out.v = (IF BothLoad(ProcessedPath(out.region, "Transport"),
                                  ProcessedPath(out.region, "Warehouse"))
                      THEN Some(AllOf(ProcessedPath(out.region, "Transport"),
                                      ProcessedPath(out.region, "Warehouse")))
                      ELSE NoneValue)
          /\ ~out.v.none =>
                Len(out.v.df.rows) =
                    Len(FileAt(fs, ProcessedPath(out.region, "Transport")).df.rows)
                    + Len(FileAt(fs, ProcessedPath(out.region, "Warehouse")).df.rows)
    /\ (out.fn = "calculate_dashboard_metrics" /\ out.industry = "All") =>
          /\ out.raised = "none"
          /\ out.v = (IF BothLoad(MetricsPath(out.region, "Transport"),
                                  MetricsPath(out.region, "Warehouse"))
                      THEN ComputeMetrics(AllOf(MetricsPath(out.region, "Transport"),
                                                MetricsPath(out.region, "Warehouse")),
                                          out.region, "All").v
                      ELSE DefaultMetrics(out.region, "All"))
\* both Kanto files load: one transport row, then two warehouse rows
C29_Witness ==
    /\ out.fn = "load_dashboard_data" /\ out.industry = "All" /\ out.region = "Kanto"
    /\ ~out.v.none
    /\ Len(out.v.df.rows) = 3
    /\ out.v.df.rows[1].cells[IndustryCol] = Text(IndustryCode("Transport"))
    /\ out.v.df.rows[3].cells[IndustryCol] = Text(IndustryCode("Warehouse"))
    /\ out.v.df.rows[1].cells[TotalCol] = Num(3)
    /\ out.v.df.rows[3].cells[TotalCol] = Num(4)
\* the warehouse file fails and the metrics of All are the default record,
\* although the transport file loads
C29_WitnessMetrics ==
    /\ out.fn = "calculate_dashboard_metrics" /\ out.industry = "All"
    /\ FileAt(fs, MetricsPath(out.region, "Transport")).st = "ok"
    /\ FileAt(fs, MetricsPath(out.region, "Warehouse")).st = "missing"
    /\ out.v = DefaultMetrics(out.region, "All")

====
